---- MODULE Spec2Model ----
(***************************************************************************)
(* Model of backend/server.ts of transport-map: the startup sequence, the  *)
(* static refresh loop, the vehicle poll loop, the geofence stop-visit     *)
(* detector, the retention sweep and the stop analytics request, over a    *)
(* small provider and a small store.                                       *)
(*                                                                         *)
(* Every `await` of the source is a suspension point: a handler runs from  *)
(* one await to the next as one action, and each awaited I/O call settles  *)
(* either way (resolved or rejected).  Positions are metres along one      *)
(* meridian, so the great-circle distance of two points is the absolute    *)
(* difference of their latitudes.  A Date is the whole minute it falls in, *)
(* counted from the local midnight of day 0; a time of day is counted in   *)
(* half minutes, so that the mean of two of them is a whole number.        *)
(***************************************************************************)
EXTENDS Integers, Sequences, FiniteSets, TLC

\* ------------------------------------------------------------------ constants
POLL_DAY_INTERVAL_MS == 15000
POLL_NIGHT_INTERVAL_MS == 60000
DAY_START_HOUR == 6
DAY_END_HOUR == 24
STOP_RADIUS_METERS == 50
STOP_EXIT_RADIUS_METERS == 60
RETENTION_DAYS == 30

\* the delay of scheduleDailyCleanup's timer
SweepDelayMs == 24 * 60 * 60 * 1000

ChunkSize == 1000
\* the days of the stop analytics window before today
WindowDays == 6
\* minutes of a local calendar day, and the parts of a minute timeToMinutes
\* resolves (seconds / 60)
MinutesPerDay == 1440
MinuteParts == 2

\* A value whose typeof is not "number" (undefined, null, a string).
NotNumber == -1
\* A null / undefined / empty-string reference.
Null == "null"
\* An absent Date: null, or the Date of a missing or empty timestamp text.
NoDate == -1

\* ------------------------------------------------------------------ bounds
\* Rows the store accepts in stop_visits before an insert can only fail (a
\* full store): keeps the append-only table finite.
MaxVisits == 2

\* ------------------------------------------------------------------ provider
\* Two versions of the provider's reference data, and the empty store.
DataA ==
  [ routes     |-> << [route_id |-> 1, route_short_name |-> "1"],
                      [route_id |-> 2, route_short_name |-> "2"] >>,
    trips      |-> << [trip_id |-> "T1", route_id |-> 1, direction_id |-> 0],
                      [trip_id |-> "T2", route_id |-> 2, direction_id |-> 1] >>,
    stops      |-> << [stop_id |-> 1, stop_lat |-> 0, stop_lon |-> 0],
                      [stop_id |-> 2, stop_lat |-> 105, stop_lon |-> 0] >>,
    stop_times |-> << [trip_id |-> "T1", stop_id |-> 1, stop_sequence |-> 1],
                      [trip_id |-> "T1", stop_id |-> 2, stop_sequence |-> 2],
                      [trip_id |-> "T2", stop_id |-> 2, stop_sequence |-> 1] >>,
    shapes     |-> << [shape_id |-> "sh", shape_pt_sequence |-> 1] >> ]

DataB ==
  [ routes     |-> << [route_id |-> 2, route_short_name |-> "2b"] >>,
    trips      |-> << [trip_id |-> "T1", route_id |-> 2, direction_id |-> 0] >>,
    stops      |-> << [stop_id |-> 1, stop_lat |-> 0, stop_lon |-> 0] >>,
    stop_times |-> << [trip_id |-> "T1", stop_id |-> 1, stop_sequence |-> 1] >>,
    shapes     |-> << >> ]

Datasets == {DataA, DataB}

Resources == {"routes", "trips", "stops", "stop_times", "shapes"}

\* ------------------------------------------------------------------ helpers
Range(s) == {s[n] : n \in 1..Len(s)}

Min(a, b) == IF a < b THEN a ELSE b

Max(a, b) == IF a > b THEN a ELSE b

Abs(x) == IF x < 0 THEN -x ELSE x

RemoveAt(s, k) == SubSeq(s, 1, k - 1) \o SubSeq(s, k + 1, Len(s))

IsNumber(x) == x # NotNumber

\* rows.slice(i, i + chunkSize) of chunkedInsert
Batch(rows, i, chunkSize) == SubSeq(rows, i + 1, Min(Len(rows), i + chunkSize))

\* the row mappings of refreshStaticData / upsertRoutes
RouteRow(route) == [routeId |-> route.route_id, routeShortName |-> route.route_short_name]
TripRow(trip) == [tripId |-> trip.trip_id, routeId |-> trip.route_id, directionId |-> trip.direction_id]
StopRow(stop) == [stopId |-> stop.stop_id, stopLat |-> stop.stop_lat, stopLon |-> stop.stop_lon]
StopTimeRow(st) == [tripId |-> st.trip_id, stopId |-> st.stop_id, stopSequence |-> st.stop_sequence]
ShapeRow(shape) == [shapeId |-> shape.shape_id, shapePtSequence |-> shape.shape_pt_sequence]

MapRows(rows, kind) ==
  [n \in 1..Len(rows) |->
     CASE kind = "routes" -> RouteRow(rows[n])
       [] kind = "trips" -> TripRow(rows[n])
       [] kind = "stops" -> StopRow(rows[n])
       [] kind = "stop_times" -> StopTimeRow(rows[n])
       [] OTHER -> ShapeRow(rows[n])]

\* the reference tables holding exactly the rows of a provider version
TablesOf(data) ==
  [ routes |-> Range(MapRows(data.routes, "routes")),
    trips |-> Range(MapRows(data.trips, "trips")),
    stops |-> Range(MapRows(data.stops, "stops")),
    stopTimes |-> Range(MapRows(data.stop_times, "stop_times")),
    shapes |-> Range(MapRows(data.shapes, "shapes")) ]

EmptyTables == [routes |-> {}, trips |-> {}, stops |-> {}, stopTimes |-> {}, shapes |-> {}]

\* ------------------------------------------------------------------ state
VARIABLES
  main,                 \* position of the module's top-level code (startup)
  db,                   \* the store: one set (or sequence) of rows per table
  stopsCache, stopById, tripByIdCache, stopIdsByTripId,
  stopInsideByVehicle,
  latestVehiclesCache, latestVehiclesFetchedAt,
  refreshRuns,          \* activations of refreshStaticData in flight
  refreshTimers,        \* armed timers of scheduleStaticRefresh
  refreshLog,           \* outcome of the last settled refresh (console.error)
  pollRuns,             \* activations of scheduleLoop's run in flight
  pollTimers,           \* armed timers of scheduleLoop
  pollInterval,         \* delay of the armed poll timer
  pollHour,             \* the hour getPollIntervalMs read for it
  pollLog,              \* outcome of the last settled poll cycle (console.error)
  now,                  \* the clock new Date() reads
  sweepRuns,            \* activations of scheduleDailyCleanup's run in flight
  sweepTimers,          \* armed timers of scheduleDailyCleanup
  sweepDelay,           \* delay of the armed sweep timer
  sweepLog,             \* outcome of the last settled sweep (console.error)
  requests,             \* activations of the stop analytics handler in flight
  response              \* the response the handler sent last

refVars == <<stopsCache, stopById, tripByIdCache, stopIdsByTripId>>
pollVars == <<stopInsideByVehicle, latestVehiclesCache, latestVehiclesFetchedAt,
              pollRuns, pollTimers, pollInterval, pollHour, pollLog>>
refreshVars == <<refreshRuns, refreshTimers, refreshLog>>
sweepVars == <<sweepRuns, sweepTimers, sweepDelay, sweepLog>>
httpVars == <<requests, response>>
vars == <<main, db, refVars, pollVars, refreshVars, now, sweepVars, httpVars>>

\* ------------------------------------------------------------------ caches
\* new Map(stops.map((stop) => [stop.stop_id, stop])): a later entry wins
StopMap(stops) ==
  [id \in {stops[n].stop_id : n \in 1..Len(stops)} |->
     stops[CHOOSE n \in 1..Len(stops) :
             /\ stops[n].stop_id = id
             /\ \A m \in (n + 1)..Len(stops) : stops[m].stop_id # id]]

\* tripsData.forEach(tripByIdCache.set(...)): a later entry wins
TripMap(trips) ==
  [id \in {trips[n].trip_id : n \in 1..Len(trips)} |->
     LET t == trips[CHOOSE n \in 1..Len(trips) :
                      /\ trips[n].trip_id = id
                      /\ \A m \in (n + 1)..Len(trips) : trips[m].trip_id # id]
     IN [routeId |-> t.route_id, directionId |-> t.direction_id]]

\* stopTimesData.forEach(...): one insertion-ordered Set of stop ids per trip
RECURSIVE StopIdsOf(_, _, _)
StopIdsOf(stopTimes, trip, n) ==
  IF n = 0 THEN << >>
  ELSE LET sofar == StopIdsOf(stopTimes, trip, n - 1)
           st == stopTimes[n]
       IN IF st.trip_id = trip /\ st.stop_id \notin Range(sofar)
          THEN Append(sofar, st.stop_id)
          ELSE sofar

StopIdsMap(stopTimes) ==
  [trip \in {stopTimes[n].trip_id : n \in 1..Len(stopTimes)} |->
     StopIdsOf(stopTimes, trip, Len(stopTimes))]

\* the rows of db.select().from(stops), mapped back to Stop values
LoadedStops(rows) == {[stop_id |-> r.stopId, stop_lat |-> r.stopLat, stop_lon |-> r.stopLon] : r \in rows}

LoadedStopMap(rows) ==
  [id \in {r.stopId : r \in rows} |->
     LET r == CHOOSE r \in rows : r.stopId = id
     IN [stop_id |-> r.stopId, stop_lat |-> r.stopLat, stop_lon |-> r.stopLon]]

EmptyMap == [x \in {} |-> Null]

\* what a static refresh is meant to replace: reference tables and caches
RefState ==
  [ routes |-> db.routes, trips |-> db.trips, stops |-> db.stops,
    stopTimes |-> db.stopTimes, shapes |-> db.shapes,
    stopsCache |-> stopsCache, stopById |-> stopById,
    tripByIdCache |-> tripByIdCache, stopIdsByTripId |-> stopIdsByTripId ]

NoData == [routes |-> << >>, trips |-> << >>, stops |-> << >>,
           stop_times |-> << >>, shapes |-> << >>]

NewRefreshRun(owner) ==
  [owner |-> owner, pc |-> "fetch", data |-> NoData, i |-> 0, before |-> RefState]

\* pollVehicles is called: const fetchedAt = new Date()
NewPollRun ==
  [pc |-> "fetch", fetchedAt |-> now, vehicles |-> << >>, events |-> << >>, i |-> 0]

\* cutoff.setDate(cutoff.getDate() - RETENTION_DAYS) of cleanupOldSnapshots
RetentionCutoff(date) == date - RETENTION_DAYS * MinutesPerDay

\* cleanupOldSnapshots is called: the cutoff is computed before its first await
NewSweepRun == [pc |-> "snapshots", cutoff |-> RetentionCutoff(now)]

\* the instant the process starts at: 08:10 on day 40
StartDay == 40
StartTime == StartDay * MinutesPerDay + 8 * 60 + 10

\* ------------------------------------------------------------------ Init
\* The process starts on a store that is empty or was filled by an earlier
\* run; app.listen() has returned and `await refreshStaticData()` is pending.
InitialStores == {EmptyTables, TablesOf(DataA)}

Init ==
  /\ main = "initRefresh"
  /\ now = StartTime
  /\ sweepRuns = << >>
  /\ sweepTimers = 0
  /\ sweepDelay = 0
  /\ sweepLog = "none"
  /\ requests = << >>
  /\ response = [status |-> 0]
  /\ \E t \in InitialStores :
       db = [routes |-> t.routes, trips |-> t.trips, stops |-> t.stops,
             stopTimes |-> t.stopTimes, shapes |-> t.shapes,
             stopVisits |-> << >>, vehicleSnapshots |-> {},
             routeDailyStats |-> {}]
  /\ stopsCache = {}
  /\ stopById = EmptyMap
  /\ tripByIdCache = EmptyMap
  /\ stopIdsByTripId = EmptyMap
  /\ stopInsideByVehicle = {}
  /\ latestVehiclesCache = << >>
  /\ latestVehiclesFetchedAt = NoDate
  /\ refreshRuns = << [owner |-> "startup", pc |-> "fetch", data |-> NoData, i |-> 0,
                       before |-> [routes |-> db.routes, trips |-> db.trips,
                                   stops |-> db.stops, stopTimes |-> db.stopTimes,
                                   shapes |-> db.shapes, stopsCache |-> {},
                                   stopById |-> EmptyMap, tripByIdCache |-> EmptyMap,
                                   stopIdsByTripId |-> EmptyMap]] >>
  /\ refreshTimers = 0
  /\ refreshLog = "running"
  /\ pollRuns = << >>
  /\ pollTimers = 0
  /\ pollInterval = 0
  /\ pollHour = 0
  /\ pollLog = "none"

\* ------------------------------------------------------------------ static refresh
RefreshStages ==
  << "fetch", "delTrips", "delStops", "delStopTimes", "delShapes", "upsertRoutes",
     "insTrips", "insStops", "loadStops", "insStopTimes", "insShapes", "build" >>

StageIndex(pc) == CHOOSE n \in 1..Len(RefreshStages) : RefreshStages[n] = pc

\* the provider rows a stage of refreshStaticData writes
StageRows(pc, data) ==
  CASE pc = "upsertRoutes" -> data.routes
    [] pc = "insTrips" -> data.trips
    [] pc = "insStops" -> data.stops
    [] pc = "insStopTimes" -> data.stop_times
    [] pc = "insShapes" -> data.shapes
    [] OTHER -> << >>

\* upsertRoutes returns before its insert on no rows, and chunkedInsert's
\* loop has no iteration (no await) on no rows
StageSkipped(pc, data) ==
  /\ pc \in {"upsertRoutes", "insTrips", "insStops", "insStopTimes", "insShapes"}
  /\ Len(StageRows(pc, data)) = 0

\* the next stage of refreshStaticData, after stage n, that awaits I/O
RECURSIVE NextAwait(_, _)
NextAwait(n, data) ==
  IF RefreshStages[n + 1] = "build" \/ ~StageSkipped(RefreshStages[n + 1], data)
  THEN RefreshStages[n + 1]
  ELSE NextAwait(n + 1, data)

\* the finally block of scheduleStaticRefresh's run, or the return to the
\* top-level code that awaited the initial refresh
RefreshSettle(k, outcome) ==
  /\ refreshRuns' = RemoveAt(refreshRuns, k)
  /\ refreshLog' = outcome
  /\ IF refreshRuns[k].owner = "loop"
     THEN refreshTimers' = refreshTimers + 1 /\ main' = main
     ELSE refreshTimers' = refreshTimers /\ main' = "initLoad"

\* buildStaticCaches
BuildStaticCaches(data) ==
  /\ stopsCache' = Range(data.stops)
  /\ stopById' = StopMap(data.stops)
  /\ tripByIdCache' = TripMap(data.trips)
  /\ stopIdsByTripId' = StopIdsMap(data.stop_times)

\* refreshStaticData resumes after the await of stage run.pc resolved, with
\* the stop caches sc / sb, and runs to its next await or to its end
RefreshAdvance(k, run, sc, sb) ==
  LET nxt == NextAwait(StageIndex(run.pc), run.data)
  IN IF nxt # "build"
     THEN /\ refreshRuns' = [refreshRuns EXCEPT ![k] = [run EXCEPT !.pc = nxt, !.i = 0]]
          /\ stopsCache' = sc
          /\ stopById' = sb
          /\ UNCHANGED <<tripByIdCache, stopIdsByTripId, refreshTimers, refreshLog, main>>
     ELSE /\ BuildStaticCaches(run.data)
          /\ RefreshSettle(k, "ok")

\* RefreshFetchOk calling buildStaticCaches as soon as the data is fetched
RefreshFetchOkBuildsCaches(k, data) ==
  /\ refreshRuns[k].pc = "fetch"
  /\ refreshRuns' = [refreshRuns EXCEPT ![k] = [@ EXCEPT !.data = data, !.pc = "delTrips"]]
  /\ BuildStaticCaches(data)
  /\ UNCHANGED <<main, refreshTimers, refreshLog, db, pollVars, now, sweepVars, httpVars>>

\* Promise.all of the five fetchJson calls resolves
RefreshFetchOk(k, data) ==
  /\ refreshRuns[k].pc = "fetch"
  /\ RefreshAdvance(k, [refreshRuns[k] EXCEPT !.data = data], stopsCache, stopById)
  /\ UNCHANGED <<db, pollVars, now, sweepVars, httpVars>>

\* await db.delete(trips | stops | stopTimes | shapes) resolves
RefreshDeleteOk(k) ==
  LET pc == refreshRuns[k].pc
  IN /\ pc \in {"delTrips", "delStops", "delStopTimes", "delShapes"}
     /\ db' = CASE pc = "delTrips" -> [db EXCEPT !.trips = {}]
                [] pc = "delStops" -> [db EXCEPT !.stops = {}]
                [] pc = "delStopTimes" -> [db EXCEPT !.stopTimes = {}]
                [] OTHER -> [db EXCEPT !.shapes = {}]
     /\ RefreshAdvance(k, refreshRuns[k], stopsCache, stopById)
     /\ UNCHANGED <<pollVars, now, sweepVars, httpVars>>

\* insert ... onConflictDoUpdate of upsertRoutes resolves
RefreshUpsertRoutesOk(k) ==
  LET rows == Range(MapRows(refreshRuns[k].data.routes, "routes"))
      ids == {r.routeId : r \in rows}
      \* of two rows of one statement with the same key, none can be kept:
      \* the provider's route ids are distinct
  IN /\ refreshRuns[k].pc = "upsertRoutes"
     /\ db' = [db EXCEPT !.routes = {r \in @ : r.routeId \notin ids} \cup rows]
     /\ RefreshAdvance(k, refreshRuns[k], stopsCache, stopById)
     /\ UNCHANGED <<pollVars, now, sweepVars, httpVars>>

\* one await db.insert(table).values(batch) of chunkedInsert resolves
RefreshInsertOk(k) ==
  LET run == refreshRuns[k]
      pc == run.pc
      kind == CASE pc = "insTrips" -> "trips" [] pc = "insStops" -> "stops"
                [] pc = "insStopTimes" -> "stop_times" [] OTHER -> "shapes"
      rows == MapRows(StageRows(pc, run.data), kind)
      batch == Range(Batch(rows, run.i, ChunkSize))
  IN /\ pc \in {"insTrips", "insStops", "insStopTimes", "insShapes"}
     /\ db' = CASE pc = "insTrips" -> [db EXCEPT !.trips = @ \cup batch]
                [] pc = "insStops" -> [db EXCEPT !.stops = @ \cup batch]
                [] pc = "insStopTimes" -> [db EXCEPT !.stopTimes = @ \cup batch]
                [] OTHER -> [db EXCEPT !.shapes = @ \cup batch]
     /\ IF run.i + ChunkSize < Len(rows)
        THEN /\ refreshRuns' = [refreshRuns EXCEPT ![k].i = run.i + ChunkSize]
             /\ UNCHANGED <<refVars, refreshTimers, refreshLog, main>>
        ELSE RefreshAdvance(k, run, stopsCache, stopById)
     /\ UNCHANGED <<pollVars, now, sweepVars, httpVars>>

\* the select of loadStopsCache (called by refreshStaticData) resolves
RefreshLoadStopsOk(k) ==
  /\ refreshRuns[k].pc = "loadStops"
  /\ RefreshAdvance(k, refreshRuns[k], LoadedStops(db.stops), LoadedStopMap(db.stops))
  /\ UNCHANGED <<db, pollVars, now, sweepVars, httpVars>>

\* the awaited call of the current stage rejects (for the fetch stage: the
\* fetch of resource res does): refreshStaticData throws, the caller logs
RefreshFail(k, res) ==
  /\ refreshRuns[k].pc = "fetch" \/ res = "routes"
  /\ RefreshSettle(k, "failed")
  /\ UNCHANGED <<db, refVars, pollVars, now, sweepVars, httpVars>>

\* the 6 h timer of scheduleStaticRefresh fires: run()
RefreshTimerFire ==
  /\ refreshTimers > 0
  /\ refreshTimers' = refreshTimers - 1
  /\ refreshRuns' = Append(refreshRuns, NewRefreshRun("loop"))
  /\ refreshLog' = "running"
  /\ UNCHANGED <<main, db, refVars, pollVars, now, sweepVars, httpVars>>

\* ------------------------------------------------------------------ startup
\* scheduleLoop(); scheduleStaticRefresh(); scheduleDailyCleanup(): each
\* calls its run() at once, the stop caches being sc / sb by then
StartLoops(sc, sb) ==
  /\ main' = "running"
  /\ stopsCache' = sc
  /\ stopById' = sb
  /\ pollRuns' = Append(pollRuns, NewPollRun)
  /\ pollLog' = "running"
  /\ refreshRuns' = Append(refreshRuns,
                           [NewRefreshRun("loop") EXCEPT !.before.stopsCache = sc,
                                                         !.before.stopById = sb])
  /\ refreshLog' = "running"
  /\ sweepRuns' = Append(sweepRuns, NewSweepRun)
  /\ sweepLog' = "running"
  /\ UNCHANGED <<db, refreshTimers, tripByIdCache, stopIdsByTripId, stopInsideByVehicle,
                 latestVehiclesCache, latestVehiclesFetchedAt, pollTimers, pollInterval,
                 pollHour, now, sweepTimers, sweepDelay, httpVars>>

\* the top-level `await loadStopsCache()` resolves
StartupLoadOk ==
  /\ main = "initLoad"
  /\ StartLoops(LoadedStops(db.stops), LoadedStopMap(db.stops))

\* the top-level `await loadStopsCache()` rejects and .catch logs it
StartupLoadFail ==
  /\ main = "initLoad"
  /\ StartLoops(stopsCache, stopById)

\* getPollIntervalMs with the day window opening one hour late (> for >=)
getPollIntervalMsLateDay(hour) ==
  IF hour > DAY_START_HOUR /\ hour < DAY_END_HOUR
  THEN POLL_DAY_INTERVAL_MS
  ELSE POLL_NIGHT_INTERVAL_MS

\* ------------------------------------------------------------------ poll loop
getPollIntervalMs(hour) ==
  IF hour >= DAY_START_HOUR /\ hour < DAY_END_HOUR
  THEN POLL_DAY_INTERVAL_MS
  ELSE POLL_NIGHT_INTERVAL_MS

\* both points lie on the meridian of longitude 0, one unit of latitude
\* being one metre of arc
haversineMeters(lat1, lon1, lat2, lon2) == Abs(lat2 - lat1)

\* the StopVisit recordStopVisits pushes when vehicle leaves stop
\* (vehicle.timestamp holds the instant its text denotes, NoDate when it is
\* empty or missing)
VisitEvent(vehicle, stop, distance, fetchedAt) ==
  [ stopId |-> stop.stop_id, routeId |-> vehicle.route_id, tripId |-> vehicle.trip_id,
    vehicleId |-> vehicle.id,
    observedAt |-> IF vehicle.timestamp # NoDate THEN vehicle.timestamp ELSE fetchedAt,
    fetchedAt |-> fetchedAt,
    latitude |-> vehicle.latitude, distanceMeters |-> distance ]

\* VisitStop pushing a StopVisit when the vehicle enters the zone as well
VisitStopEventOnEntry(vehicle, stop, st) ==
  LET key == <<vehicle.id, stop.stop_id>>
      distance == Abs(stop.stop_lat - vehicle.latitude)
  IN IF key \in st.inside
     THEN IF distance > STOP_EXIT_RADIUS_METERS
          THEN [inside |-> st.inside \ {key}, fetchedAt |-> st.fetchedAt,
                events |-> Append(st.events, VisitEvent(vehicle, stop, distance, st.fetchedAt))]
          ELSE st
     ELSE IF distance > STOP_RADIUS_METERS
          THEN st
          ELSE [inside |-> st.inside \cup {key}, fetchedAt |-> st.fetchedAt,
                events |-> Append(st.events, VisitEvent(vehicle, stop, distance, st.fetchedAt))]

\* VisitStop leaving the zone at the entry radius (no hysteresis)
VisitStopNoHysteresis(vehicle, stop, st) ==
  LET key == <<vehicle.id, stop.stop_id>>
      distance == Abs(stop.stop_lat - vehicle.latitude)
  IN IF key \in st.inside
     THEN IF distance > STOP_RADIUS_METERS
          THEN [inside |-> st.inside \ {key}, fetchedAt |-> st.fetchedAt,
                events |-> Append(st.events, VisitEvent(vehicle, stop, distance, st.fetchedAt))]
          ELSE st
     ELSE IF distance > STOP_RADIUS_METERS
          THEN st
          ELSE [st EXCEPT !.inside = @ \cup {key}]

\* VisitStop without stopInsideByVehicle.delete(key) on exit
VisitStopKeepsKey(vehicle, stop, st) ==
  LET key == <<vehicle.id, stop.stop_id>>
      distance == Abs(stop.stop_lat - vehicle.latitude)
  IN IF key \in st.inside
     THEN IF distance > STOP_EXIT_RADIUS_METERS
          THEN [st EXCEPT !.events = Append(@, VisitEvent(vehicle, stop, distance, st.fetchedAt))]
          ELSE st
     ELSE IF distance > STOP_RADIUS_METERS
          THEN st
          ELSE [st EXCEPT !.inside = @ \cup {key}]

\* the body of Array.from(allowedStops).forEach for one stop of stopById, on
\* st = [inside, events, fetchedAt]
VisitStop(vehicle, stop, st) ==
  LET key == <<vehicle.id, stop.stop_id>>
      distance == haversineMeters(vehicle.latitude, vehicle.longitude,
                                  stop.stop_lat, stop.stop_lon)
  IN IF key \in st.inside
     THEN IF distance > STOP_EXIT_RADIUS_METERS
          THEN [inside |-> st.inside \ {key}, fetchedAt |-> st.fetchedAt,
                events |-> Append(st.events, VisitEvent(vehicle, stop, distance, st.fetchedAt))]
          ELSE st
     ELSE IF distance > STOP_RADIUS_METERS
          THEN st
          ELSE [st EXCEPT !.inside = @ \cup {key}]

\* Array.from(allowedStops).forEach over stops[n], stops[n+1], ...
RECURSIVE VisitStops(_, _, _, _)
VisitStops(vehicle, stops, n, st) ==
  IF n > Len(stops) THEN st
  ELSE IF stops[n] \notin DOMAIN stopById THEN VisitStops(vehicle, stops, n + 1, st)
  ELSE VisitStops(vehicle, stops, n + 1, VisitStop(vehicle, stopById[stops[n]], st))

\* SkipsVehicle without the comparison of the trip's route to the vehicle's
SkipsVehicleNoRouteCheck(vehicle) ==
  \/ ~IsNumber(vehicle.latitude)
  \/ ~IsNumber(vehicle.longitude)
  \/ ~IsNumber(vehicle.route_id)
  \/ vehicle.trip_id = Null
  \/ vehicle.trip_id \notin DOMAIN tripByIdCache
  \/ vehicle.trip_id \notin DOMAIN stopIdsByTripId
  \/ Len(stopIdsByTripId[vehicle.trip_id]) = 0

\* the guards of vehicles.forEach in recordStopVisits: the vehicle is checked
SkipsVehicle(vehicle) ==
  \/ ~IsNumber(vehicle.latitude)
  \/ ~IsNumber(vehicle.longitude)
  \/ ~IsNumber(vehicle.route_id)
  \/ vehicle.trip_id = Null
  \/ vehicle.trip_id \notin DOMAIN tripByIdCache
  \/ vehicle.trip_id \notin DOMAIN stopIdsByTripId
  \/ Len(stopIdsByTripId[vehicle.trip_id]) = 0
  \/ tripByIdCache[vehicle.trip_id].routeId # vehicle.route_id

\* VisitVehicles checking the vehicle against every stop of stopById, not
\* only the stops of its trip
RECURSIVE VisitVehiclesAllStops(_, _, _)
VisitVehiclesAllStops(vehicles, n, st) ==
  IF n > Len(vehicles) THEN st
  ELSE IF SkipsVehicle(vehicles[n]) THEN VisitVehiclesAllStops(vehicles, n + 1, st)
  ELSE VisitVehiclesAllStops(vehicles, n + 1,
         VisitStops(vehicles[n],
                    IF 1 \in DOMAIN stopById
                    THEN IF 2 \in DOMAIN stopById THEN <<1, 2>> ELSE <<1>>
                    ELSE IF 2 \in DOMAIN stopById THEN <<2>> ELSE << >>,
                    1, st))

\* vehicles.forEach over vehicles[n], vehicles[n+1], ...
RECURSIVE VisitVehicles(_, _, _)
VisitVehicles(vehicles, n, st) ==
  IF n > Len(vehicles) THEN st
  ELSE IF SkipsVehicle(vehicles[n]) THEN VisitVehicles(vehicles, n + 1, st)
  ELSE VisitVehicles(vehicles, n + 1,
                     VisitStops(vehicles[n], stopIdsByTripId[vehicles[n].trip_id], 1, st))

\* recordStopVisits up to its await: the containment set and the events
RecordStopVisits(fetchedAt, vehicles, inside) ==
  LET st == VisitVehicles(vehicles, 1,
                          [inside |-> inside, events |-> << >>, fetchedAt |-> fetchedAt])
  IN IF stopsCache = {}
     THEN [inside |-> inside, events |-> << >>]
     ELSE [inside |-> st.inside, events |-> st.events]

\* the route ids upsertRouteDailyStats collects in byRoute
ByRoute(vehicles) ==
  {vehicles[n].route_id : n \in {m \in 1..Len(vehicles) : IsNumber(vehicles[m].route_id)}}

\* minutes the local time of the process is ahead of UTC
UtcOffset == 120

\* fetchedAt.toISOString().slice(0, 10): the UTC day of a date
isoDay(date) == (date - UtcOffset) \div MinutesPerDay

\* upsertRouteDailyStats with DO UPDATE SET first_seen_at = EXCLUDED.first_seen_at,
\* last_seen_at = EXCLUDED.last_seen_at
upsertRouteDailyStatsOverwrites(rows, fetchedAt, routes) ==
  {r \in rows : ~(r.day = isoDay(fetchedAt) /\ r.routeId \in routes)}
  \cup {[day |-> isoDay(fetchedAt), routeId |-> route, firstSeenAt |-> fetchedAt,
         lastSeenAt |-> fetchedAt] : route \in routes}

\* the route_daily_stats table after the insert ... onConflictDoUpdate of
\* upsertRouteDailyStats for the routes of byRoute
upsertRouteDailyStats(rows, fetchedAt, routes) ==
  LET day == isoDay(fetchedAt)
      Old(route) == {r \in rows : r.day = day /\ r.routeId = route}
      Merged(route) ==
        IF Old(route) = {}
        THEN [day |-> day, routeId |-> route, firstSeenAt |-> fetchedAt,
              lastSeenAt |-> fetchedAt]
        ELSE LET old == CHOOSE r \in Old(route) : TRUE
             IN [day |-> day, routeId |-> route,
                 firstSeenAt |-> Min(old.firstSeenAt, fetchedAt),
                 lastSeenAt |-> Max(old.lastSeenAt, fetchedAt)]
  IN {r \in rows : ~(r.day = day /\ r.routeId \in routes)}
     \cup {Merged(route) : route \in routes}

\* the rows of storeVehicleSnapshots
SnapshotRows(fetchedAt, vehicles) ==
  [n \in 1..Len(vehicles) |-> [fetchedAt |-> fetchedAt, vehicleId |-> vehicles[n].id]]

\* now.getHours(): the local hour of a date
getHours(date) == (date % MinutesPerDay) \div 60

\* PollSettle choosing the interval by the hour the cycle started at
PollSettleByStartHour(k, outcome, hour) ==
  /\ pollRuns' = RemoveAt(pollRuns, k)
  /\ pollTimers' = pollTimers + 1
  /\ pollInterval' = getPollIntervalMs(getHours(pollRuns[k].fetchedAt))
  /\ pollHour' = getHours(pollRuns[k].fetchedAt)
  /\ pollLog' = outcome

\* the finally block of scheduleLoop's run
PollSettle(k, outcome, hour) ==
  /\ pollRuns' = RemoveAt(pollRuns, k)
  /\ pollTimers' = pollTimers + 1
  /\ pollInterval' = getPollIntervalMs(hour)
  /\ pollHour' = hour
  /\ pollLog' = outcome

\* PollNextAwait of a pollVehicles that calls recordStopVisits before
\* upsertRouteDailyStats
PollNextAwaitDetectsFirst(pc, vehicles) ==
  IF pc = "fetch" /\ Len(vehicles) > 0 THEN "snapshots" ELSE "detect"

\* the next stage of pollVehicles, after stage pc, that awaits I/O:
\* storeVehicleSnapshots and upsertRouteDailyStats return early on nothing to write
PollNextAwait(pc, vehicles) ==
  IF pc = "fetch" /\ Len(vehicles) > 0 THEN "snapshots"
  ELSE IF pc \in {"fetch", "snapshots"} /\ ByRoute(vehicles) # {} THEN "stats"
  ELSE "detect"

\* pollVehicles resumes after the await of stage run.pc resolved and runs to
\* its next await or, through recordStopVisits, to its end
PollAdvance(k, run, hour) ==
  LET nxt == PollNextAwait(run.pc, run.vehicles)
      r == RecordStopVisits(run.fetchedAt, run.vehicles, stopInsideByVehicle)
  IN IF nxt # "detect"
     THEN /\ pollRuns' = [pollRuns EXCEPT ![k] = [run EXCEPT !.pc = nxt, !.i = 0]]
          /\ UNCHANGED <<stopInsideByVehicle, pollTimers, pollInterval, pollHour, pollLog>>
     ELSE /\ stopInsideByVehicle' = r.inside
          /\ IF Len(r.events) > 0
             THEN /\ pollRuns' = [pollRuns EXCEPT
                                    ![k] = [run EXCEPT !.pc = "visits", !.events = r.events,
                                                       !.i = 0]]
                  /\ UNCHANGED <<pollTimers, pollInterval, pollHour, pollLog>>
             ELSE PollSettle(k, "ok", hour)

\* PollFetchOk assigning the fetch time only when the cycle ends
PollFetchOkTimeLater(k, feed, hour) ==
  /\ pollRuns[k].pc = "fetch"
  /\ latestVehiclesCache' = feed
  /\ latestVehiclesFetchedAt' =
       IF PollNextAwait("fetch", feed) = "detect" THEN pollRuns[k].fetchedAt
       ELSE latestVehiclesFetchedAt
  /\ PollAdvance(k, [pollRuns[k] EXCEPT !.vehicles = feed], hour)
  /\ UNCHANGED <<main, db, refVars, refreshVars, now, sweepVars, httpVars>>

\* fetchJson("vehicles") resolves with the feed
PollFetchOk(k, feed, hour) ==
  /\ pollRuns[k].pc = "fetch"
  /\ latestVehiclesCache' = feed
  /\ latestVehiclesFetchedAt' = pollRuns[k].fetchedAt
  /\ PollAdvance(k, [pollRuns[k] EXCEPT !.vehicles = feed], hour)
  /\ UNCHANGED <<main, db, refVars, refreshVars, now, sweepVars, httpVars>>

\* one await db.insert(vehicleSnapshots).values(batch) of chunkedInsert resolves
PollSnapshotsOk(k, hour) ==
  LET run == pollRuns[k]
      rows == SnapshotRows(run.fetchedAt, run.vehicles)
  IN /\ run.pc = "snapshots"
     /\ db' = [db EXCEPT !.vehicleSnapshots = @ \cup Range(Batch(rows, run.i, ChunkSize))]
     /\ IF run.i + ChunkSize < Len(rows)
        THEN /\ pollRuns' = [pollRuns EXCEPT ![k].i = run.i + ChunkSize]
             /\ UNCHANGED <<stopInsideByVehicle, pollTimers, pollInterval, pollHour, pollLog>>
        ELSE PollAdvance(k, run, hour)
     /\ UNCHANGED <<main, refVars, refreshVars, now, sweepVars, httpVars, latestVehiclesCache, latestVehiclesFetchedAt>>

\* the insert ... onConflictDoUpdate of upsertRouteDailyStats resolves
PollStatsOk(k, hour) ==
  /\ pollRuns[k].pc = "stats"
  /\ db' = [db EXCEPT !.routeDailyStats =
                        upsertRouteDailyStats(@, pollRuns[k].fetchedAt,
                                              ByRoute(pollRuns[k].vehicles))]
  /\ PollAdvance(k, pollRuns[k], hour)
  /\ UNCHANGED <<main, refVars, refreshVars, now, sweepVars, httpVars, latestVehiclesCache, latestVehiclesFetchedAt>>

\* one await db.insert(stopVisits).values(batch) of chunkedInsert resolves
PollVisitsOk(k, hour) ==
  LET run == pollRuns[k]
      batch == Batch(run.events, run.i, ChunkSize)
  IN /\ run.pc = "visits"
     /\ Len(db.stopVisits) + Len(batch) <= MaxVisits
     /\ db' = [db EXCEPT !.stopVisits = @ \o batch]
     /\ IF run.i + ChunkSize < Len(run.events)
        THEN /\ pollRuns' = [pollRuns EXCEPT ![k].i = run.i + ChunkSize]
             /\ UNCHANGED <<pollTimers, pollInterval, pollHour, pollLog>>
        ELSE PollSettle(k, "ok", hour)
     /\ UNCHANGED <<main, refVars, refreshVars, now, sweepVars, httpVars, stopInsideByVehicle, latestVehiclesCache,
                    latestVehiclesFetchedAt>>

\* PollFail without the finally block: a failed cycle arms no timer
PollFailNoFinally(k, hour) ==
  /\ pollRuns' = RemoveAt(pollRuns, k)
  /\ pollLog' = pollRuns[k].pc
  /\ UNCHANGED <<main, db, refVars, refreshVars, now, sweepVars, httpVars, stopInsideByVehicle, latestVehiclesCache,
                 latestVehiclesFetchedAt, pollTimers, pollInterval, pollHour>>

\* the awaited call of the current stage rejects: pollVehicles throws, run
\* logs "Vehicle poll failed" and its finally block arms the timer
PollFail(k, hour) ==
  /\ PollSettle(k, pollRuns[k].pc, hour)
  /\ UNCHANGED <<main, db, refVars, refreshVars, now, sweepVars, httpVars, stopInsideByVehicle, latestVehiclesCache,
                 latestVehiclesFetchedAt>>

\* PollTimerFire of a repeating timer (setInterval): it stays armed
PollTimerFireRepeats ==
  /\ pollTimers > 0
  /\ pollTimers' = pollTimers
  /\ pollRuns' = Append(pollRuns, NewPollRun)
  /\ pollInterval' = pollInterval
  /\ pollHour' = pollHour
  /\ pollLog' = "running"
  /\ UNCHANGED <<main, db, refVars, refreshVars, now, sweepVars, httpVars, stopInsideByVehicle, latestVehiclesCache,
                 latestVehiclesFetchedAt>>

\* the timer of scheduleLoop fires: run()
PollTimerFire ==
  /\ pollTimers > 0
  /\ pollTimers' = pollTimers - 1
  /\ pollRuns' = Append(pollRuns, NewPollRun)
  /\ pollInterval' = 0
  /\ pollHour' = 0
  /\ pollLog' = "running"
  /\ UNCHANGED <<main, db, refVars, refreshVars, now, sweepVars, httpVars, stopInsideByVehicle, latestVehiclesCache,
                 latestVehiclesFetchedAt>>

\* ------------------------------------------------------------------ inputs
Positions == {40, 50, 55, 58, 60, 65}

Vehicle(id, lat, lon, route, trip, ts) ==
  [id |-> id, latitude |-> lat, longitude |-> lon, route_id |-> route, trip_id |-> trip,
   timestamp |-> ts]

\* every shape of vehicle the detector distinguishes
AllVehicles ==
  {Vehicle(1, lat, 0, route, trip, NoDate) :
     lat \in Positions, route \in {1, 2}, trip \in {Null, "T1", "T2", "T9"}}
  \cup {Vehicle(1, NotNumber, 0, 1, "T1", NoDate), Vehicle(1, 40, NotNumber, 1, "T1", NoDate),
        Vehicle(1, 65, 0, NotNumber, "T1", NoDate), Vehicle(1, 65, 0, 1, "T1", StartTime - 1)}

\* feeds of one vehicle of every shape, and some feeds of two vehicles
AllFeeds ==
  {<< >>} \cup {<<v>> : v \in AllVehicles}
  \cup {<<Vehicle(1, lat1, 0, 1, "T1", NoDate), Vehicle(2, lat2, 0, 1, trip2, NoDate)>> :
          lat1 \in {40, 65}, lat2 \in {40, 65}, trip2 \in {Null, "T1"}}

\* a few feeds, for the runs in which poll cycles and refreshes interleave
FewFeeds ==
  {<< >>, <<Vehicle(1, 40, 0, 1, "T1", NoDate)>>, <<Vehicle(1, 65, 0, 1, "T1", NoDate)>>,
   <<Vehicle(1, 65, 0, 2, "T2", NoDate)>>}

AllHours == 0..23
OneHour == {7}

Next ==
  \/ \E k \in 1..Len(refreshRuns) : \E data \in Datasets : RefreshFetchOk(k, data)
  \/ \E k \in 1..Len(refreshRuns) : RefreshDeleteOk(k)
  \/ \E k \in 1..Len(refreshRuns) : RefreshUpsertRoutesOk(k)
  \/ \E k \in 1..Len(refreshRuns) : RefreshInsertOk(k)
  \/ \E k \in 1..Len(refreshRuns) : RefreshLoadStopsOk(k)
  \/ \E k \in 1..Len(refreshRuns) : \E res \in Resources : RefreshFail(k, res)
  \/ RefreshTimerFire
  \/ StartupLoadOk
  \/ StartupLoadFail
  \/ \E k \in 1..Len(pollRuns) : \E hour \in OneHour :
        \E feed \in FewFeeds : PollFetchOk(k, feed, hour)
  \/ \E k \in 1..Len(pollRuns) : \E hour \in OneHour : PollSnapshotsOk(k, hour)
  \/ \E k \in 1..Len(pollRuns) : \E hour \in OneHour : PollStatsOk(k, hour)
  \/ \E k \in 1..Len(pollRuns) : \E hour \in OneHour : PollVisitsOk(k, hour)
  \/ \E k \in 1..Len(pollRuns) : \E hour \in OneHour : PollFail(k, hour)
  \/ PollTimerFire

Spec == Init /\ [][Next]_vars

\* ------------------------------------------------------------------ the poll loop alone
\* The state in which the startup refresh and the first run of the refresh
\* loop have both succeeded on one provider version and the first poll cycle
\* still awaits its fetch; from there, the poll loop within the 6 h before
\* the refresh timer fires, on every feed.
InitPoll ==
  /\ main = "running"
  /\ now = StartTime
  /\ sweepRuns = <<NewSweepRun>>
  /\ sweepTimers = 0
  /\ sweepDelay = 0
  /\ sweepLog = "running"
  /\ requests = << >>
  /\ response = [status |-> 0]
  /\ \E data \in Datasets :
       /\ db = [routes |-> TablesOf(data).routes, trips |-> TablesOf(data).trips,
                stops |-> TablesOf(data).stops, stopTimes |-> TablesOf(data).stopTimes,
                shapes |-> TablesOf(data).shapes, stopVisits |-> << >>,
                vehicleSnapshots |-> {}, routeDailyStats |-> {}]
       /\ stopsCache = Range(data.stops)
       /\ stopById = StopMap(data.stops)
       /\ tripByIdCache = TripMap(data.trips)
       /\ stopIdsByTripId = StopIdsMap(data.stop_times)
  /\ stopInsideByVehicle = {}
  /\ latestVehiclesCache = << >>
  /\ latestVehiclesFetchedAt = NoDate
  /\ refreshRuns = << >>
  /\ refreshTimers = 1
  /\ refreshLog = "ok"
  /\ pollRuns = <<NewPollRun>>
  /\ pollTimers = 0
  /\ pollInterval = 0
  /\ pollHour = 0
  /\ pollLog = "running"

NextPoll ==
  \/ \E k \in 1..Len(pollRuns) : \E hour \in OneHour :
        \E feed \in AllFeeds : PollFetchOk(k, feed, hour)
  \/ \E k \in 1..Len(pollRuns) : \E hour \in OneHour : PollSnapshotsOk(k, hour)
  \/ \E k \in 1..Len(pollRuns) : \E hour \in OneHour : PollStatsOk(k, hour)
  \/ \E k \in 1..Len(pollRuns) : \E hour \in OneHour : PollVisitsOk(k, hour)
  \/ \E k \in 1..Len(pollRuns) : \E hour \in OneHour : PollFail(k, hour)
  \/ PollTimerFire

SpecPoll == InitPoll /\ [][NextPoll]_vars

\* the same loop on a few feeds, the cycle settling at any hour of the day
NextClock ==
  \/ \E k \in 1..Len(pollRuns) : \E hour \in AllHours :
        \E feed \in FewFeeds : PollFetchOk(k, feed, hour)
  \/ \E k \in 1..Len(pollRuns) : \E hour \in AllHours : PollSnapshotsOk(k, hour)
  \/ \E k \in 1..Len(pollRuns) : \E hour \in AllHours : PollStatsOk(k, hour)
  \/ \E k \in 1..Len(pollRuns) : \E hour \in AllHours : PollVisitsOk(k, hour)
  \/ \E k \in 1..Len(pollRuns) : \E hour \in AllHours : PollFail(k, hour)
  \/ PollTimerFire

SpecClock == InitPoll /\ [][NextClock]_vars

\* the same loop when every I/O call settles and every armed timer fires
PollSettles ==
  \E k \in 1..Len(pollRuns) : \E hour \in AllHours :
    \/ \E feed \in FewFeeds : PollFetchOk(k, feed, hour)
    \/ PollSnapshotsOk(k, hour)
    \/ PollStatsOk(k, hour)
    \/ PollVisitsOk(k, hour)
    \/ PollFail(k, hour)

SpecLive == SpecClock /\ WF_vars(PollSettles) /\ WF_vars(PollTimerFire)

\* ------------------------------------------------------------------ retention sweep
\* the finally block of scheduleDailyCleanup's run
SweepSettle(k, outcome) ==
  /\ sweepRuns' = RemoveAt(sweepRuns, k)
  /\ sweepTimers' = sweepTimers + 1
  /\ sweepDelay' = SweepDelayMs
  /\ sweepLog' = outcome

\* await db.delete(vehicleSnapshots).where(fetchedAt < cutoff) resolves
SweepSnapshotsOk(k) ==
  /\ sweepRuns[k].pc = "snapshots"
  /\ db' = [db EXCEPT !.vehicleSnapshots = {r \in @ : ~(r.fetchedAt < sweepRuns[k].cutoff)}]
  /\ sweepRuns' = [sweepRuns EXCEPT ![k].pc = "visits"]
  /\ UNCHANGED <<main, refVars, pollVars, refreshVars, now, sweepTimers, sweepDelay, sweepLog, httpVars>>

\* SweepVisitsOk deleting the stop_visits rows by their fetchedAt column
SweepVisitsOkByFetchedAt(k) ==
  LET Kept(r) == ~(r.fetchedAt < sweepRuns[k].cutoff)
  IN /\ sweepRuns[k].pc = "visits"
     /\ db' = [db EXCEPT !.stopVisits = SelectSeq(@, Kept)]
     /\ SweepSettle(k, "ok")
     /\ UNCHANGED <<main, refVars, pollVars, refreshVars, now, httpVars>>

\* await db.delete(stopVisits).where(observedAt < cutoff) resolves
SweepVisitsOk(k) ==
  LET Kept(r) == ~(r.observedAt < sweepRuns[k].cutoff)
  IN /\ sweepRuns[k].pc = "visits"
     /\ db' = [db EXCEPT !.stopVisits = SelectSeq(@, Kept)]
     /\ SweepSettle(k, "ok")
     /\ UNCHANGED <<main, refVars, pollVars, refreshVars, now, httpVars>>

\* SweepFail without the finally block: a failed sweep arms no timer
SweepFailNoFinally(k) ==
  /\ sweepRuns' = RemoveAt(sweepRuns, k)
  /\ sweepLog' = "failed"
  /\ UNCHANGED <<main, db, refVars, pollVars, refreshVars, now, sweepTimers, sweepDelay,
                 httpVars>>

\* the awaited delete rejects: run logs "Cleanup failed", finally arms the timer
SweepFail(k) ==
  /\ SweepSettle(k, "failed")
  /\ UNCHANGED <<main, db, refVars, pollVars, refreshVars, now, httpVars>>

\* SweepTimerFire of a repeating timer (setInterval): it stays armed
SweepTimerFireRepeats ==
  /\ sweepTimers > 0
  /\ sweepTimers' = sweepTimers
  /\ sweepDelay' = sweepDelay
  /\ sweepRuns' = Append(sweepRuns, NewSweepRun)
  /\ sweepLog' = "running"
  /\ UNCHANGED <<main, db, refVars, pollVars, refreshVars, now, httpVars>>

\* the 24 h timer of scheduleDailyCleanup fires: run()
SweepTimerFire ==
  /\ sweepTimers > 0
  /\ sweepTimers' = sweepTimers - 1
  /\ sweepDelay' = 0
  /\ sweepRuns' = Append(sweepRuns, NewSweepRun)
  /\ sweepLog' = "running"
  /\ UNCHANGED <<main, db, refVars, pollVars, refreshVars, now, httpVars>>

\* ------------------------------------------------------------------ stop analytics
\* values.slice().sort((a, b) => a - b)
RECURSIVE SortNumbers(_)
SortNumbers(values) ==
  IF Len(values) = 0 THEN << >>
  ELSE LET sorted == SortNumbers(SubSeq(values, 1, Len(values) - 1))
           x == values[Len(values)]
           k == Cardinality({n \in 1..Len(sorted) : sorted[n] <= x})
       IN SubSeq(sorted, 1, k) \o <<x>> \o SubSeq(sorted, k + 1, Len(sorted))

\* the keys of a Map (or the values of a Set) filled in the order of s
RECURSIVE Distinct(_)
Distinct(s) ==
  IF Len(s) = 0 THEN << >>
  ELSE LET d == Distinct(SubSeq(s, 1, Len(s) - 1))
       IN IF s[Len(s)] \in Range(d) THEN d ELSE Append(d, s[Len(s)])

\* timeToMinutes, in parts of a minute
timeToMinutes(date) == MinuteParts * (date % MinutesPerDay)

\* localDateKey: the local calendar day of a Date (its text names that day)
localDateKey(date) == date \div MinutesPerDay

\* percentile rounding its index down instead of interpolating
percentileLower(values, pNum, pDen) ==
  IF Len(values) = 0 THEN NotNumber
  ELSE LET sorted == SortNumbers(values)
           span == Len(sorted) - 1
           idx == Max(0, Min(span * pDen, pNum * span))
       IN sorted[(idx \div pDen) + 1]

\* percentile(values, p) for p = pNum / pDen; idx is the source's idx * pDen
percentile(values, pNum, pDen) ==
  IF Len(values) = 0 THEN NotNumber
  ELSE LET sorted == SortNumbers(values)
           span == Len(sorted) - 1
           idx == Max(0, Min(span * pDen, pNum * span))
           lower == idx \div pDen
           upper == IF idx % pDen = 0 THEN lower ELSE lower + 1
           weight == idx - lower * pDen
       IN IF lower = upper THEN sorted[lower + 1]
          ELSE sorted[lower + 1] + ((sorted[upper + 1] - sorted[lower + 1]) * weight) \div pDen

\* the for loop of buildPredictedTimes from run index i on
RECURSIVE PredictedFrom(_, _, _)
PredictedFrom(sortedDays, i, maxCount) ==
  IF i >= maxCount THEN << >>
  ELSE LET Deep(values) == Len(values) > i
           deep == SelectSeq(sortedDays, Deep)
           samples == [n \in 1..Len(deep) |-> deep[n][i + 1]]
           rest == PredictedFrom(sortedDays, i + 1, maxCount)
       IN IF Len(samples) = 0 THEN rest
          ELSE IF percentile(samples, 1, 2) = NotNumber THEN rest
          ELSE <<percentile(samples, 1, 2)>> \o rest

RECURSIVE MaxLen(_)
MaxLen(days) ==
  IF Len(days) = 0 THEN 0
  ELSE Max(MaxLen(SubSeq(days, 1, Len(days) - 1)), Len(days[Len(days)]))

\* buildPredictedTimes taking each day's runs in stored order, unsorted
buildPredictedTimesUnsorted(dayValues) ==
  IF Len(dayValues) = 0 THEN << >>
  ELSE PredictedFrom(dayValues, 0, MaxLen(dayValues))

buildPredictedTimes(dayValues) ==
  IF Len(dayValues) = 0 THEN << >>
  ELSE LET sortedDays == [n \in 1..Len(dayValues) |-> SortNumbers(dayValues[n])]
       IN PredictedFrom(sortedDays, 0, MaxLen(sortedDays))

\* dayKeys counting i up from 0: today first, today - 6 last
dayKeysNewestFirst(today) ==
  [n \in 1..(WindowDays + 1) |->
     [key |-> localDateKey(today - (n - 1) * MinutesPerDay), isToday |-> n = 1]]

\* dayKeys: the days today - 6 .. today, oldest first
dayKeys(today) ==
  [n \in 1..(WindowDays + 1) |->
     [key |-> localDateKey(today - (WindowDays + 1 - n) * MinutesPerDay),
      isToday |-> n = WindowDays + 1]]

\* the rows of the stop_visits select of the handler
SelectVisits(rows, stopId, cutoff) ==
  LET Wanted(row) ==
        row.stopId = stopId /\ ~(row.observedAt < cutoff) /\ row.routeId # NotNumber
  IN SelectSeq(rows, Wanted)

\* knownVisits without the filter on routeInfoMap
knownVisitsAll(visits, routeInfoRows) == visits

\* knownVisits, and those of them knownVisits.forEach keeps (dayKey in daySet)
knownVisits(visits, routeInfoRows) ==
  LET Known(row) == row.routeId \in {r.routeId : r \in routeInfoRows}
  IN SelectSeq(visits, Known)

WindowVisits(known, keys) ==
  LET InWindow(row) ==
        localDateKey(row.observedAt) \in {keys[n].key : n \in 1..Len(keys)}
  IN SelectSeq(known, InWindow)

\* visitsByDay.get(day): its routes in insertion order, and the times of one
DayRoutes(rows, day) ==
  LET OfDay(row) == localDateKey(row.observedAt) = day
      ofDay == SelectSeq(rows, OfDay)
  IN Distinct([n \in 1..Len(ofDay) |-> ofDay[n].routeId])

DayTimes(rows, day, routeId) ==
  LET Of(row) == localDateKey(row.observedAt) = day /\ row.routeId = routeId
      of == SelectSeq(rows, Of)
  IN [n \in 1..Len(of) |-> timeToMinutes(of[n].observedAt)]

\* historyByRoute after dayKeys.forEach has visited keys[1..n]: its routes in
\* insertion order, and the day sequences of one route
RECURSIVE HistoryRoutes(_, _, _)
HistoryRoutes(rows, keys, n) ==
  IF n = 0 THEN << >>
  ELSE IF keys[n].isToday THEN HistoryRoutes(rows, keys, n - 1)
  ELSE Distinct(HistoryRoutes(rows, keys, n - 1) \o DayRoutes(rows, keys[n].key))

RECURSIVE historyByRoute(_, _, _, _)
historyByRoute(rows, keys, n, routeId) ==
  IF n = 0 THEN << >>
  ELSE IF keys[n].isToday \/ routeId \notin Range(DayRoutes(rows, keys[n].key))
  THEN historyByRoute(rows, keys, n - 1, routeId)
  ELSE Append(historyByRoute(rows, keys, n - 1, routeId),
              SortNumbers(DayTimes(rows, keys[n].key, routeId)))

predictedByRoute(rows, keys, routeId) ==
  buildPredictedTimes(historyByRoute(rows, keys, Len(keys), routeId))

\* the observed points of a day entry
ActualPoints(rows, day) ==
  LET dayRoutes == DayRoutes(rows, day)
  IN [n \in 1..Len(dayRoutes) |->
        [routeId |-> dayRoutes[n], minutes |-> SortNumbers(DayTimes(rows, day, dayRoutes[n])),
         predicted |-> FALSE]]

\* PredictedPoints keeping every predicted time, past ones as well
PredictedPointsAll(rows, keys, nowMinutes) ==
  LET hist == HistoryRoutes(rows, keys, Len(keys))
      points == [n \in 1..Len(hist) |->
                   [routeId |-> hist[n], minutes |-> predictedByRoute(rows, keys, hist[n]),
                    predicted |-> TRUE]]
      Some(point) == Len(point.minutes) > 0
  IN SelectSeq(points, Some)

\* PredictedPoints with today's visits taken as one more day of history
PredictedPointsTodayAsHistory(rows, keys, nowMinutes) ==
  LET all == [n \in 1..Len(keys) |-> [key |-> keys[n].key, isToday |-> FALSE]]
      hist == HistoryRoutes(rows, all, Len(all))
      Future(value) == value > nowMinutes
      points == [n \in 1..Len(hist) |->
                   [routeId |-> hist[n],
                    minutes |-> SelectSeq(predictedByRoute(rows, all, hist[n]), Future),
                    predicted |-> TRUE]]
      Some(point) == Len(point.minutes) > 0
  IN SelectSeq(points, Some)

\* the predicted points of today's entry
PredictedPoints(rows, keys, nowMinutes) ==
  LET hist == HistoryRoutes(rows, keys, Len(keys))
      Future(value) == value > nowMinutes
      points == [n \in 1..Len(hist) |->
                   [routeId |-> hist[n],
                    minutes |-> SelectSeq(predictedByRoute(rows, keys, hist[n]), Future),
                    predicted |-> TRUE]]
      Some(point) == Len(point.minutes) > 0
  IN SelectSeq(points, Some)

\* String(a.routeShortName ?? a.routeId).localeCompare(...): the rank of the
\* provider's short names in that order
LocaleRank(name) == CASE name = "1" -> 1 [] name = "2" -> 2 [] OTHER -> 3

RECURSIVE SortRoutes(_)
SortRoutes(infos) ==
  IF Len(infos) = 0 THEN << >>
  ELSE LET sorted == SortRoutes(SubSeq(infos, 1, Len(infos) - 1))
           x == infos[Len(infos)]
           k == Cardinality({n \in 1..Len(sorted) :
                               LocaleRank(sorted[n].routeShortName)
                                 <= LocaleRank(x.routeShortName)})
       IN SubSeq(sorted, 1, k) \o <<x>> \o SubSeq(sorted, k + 1, Len(sorted))

\* the body of the 200 response
StopAnalytics(stop, today, visits, routeInfoRows) ==
  LET keys == dayKeys(today)
      known == knownVisits(visits, routeInfoRows)
      rows == WindowVisits(known, keys)
      routeIds == Distinct([n \in 1..Len(known) |-> known[n].routeId])
      ShortName(id) ==
        IF \E r \in routeInfoRows : r.routeId = id
        THEN (CHOOSE r \in routeInfoRows : r.routeId = id).routeShortName
        ELSE Null
  IN [ status |-> 200,
       stop |-> stop,
       routes |-> SortRoutes([n \in 1..Len(routeIds) |->
                                [routeId |-> routeIds[n],
                                 routeShortName |-> ShortName(routeIds[n])]]),
       days |-> [n \in 1..Len(keys) |->
                   [date |-> keys[n].key, isToday |-> keys[n].isToday,
                    points |-> IF keys[n].isToday
                               THEN ActualPoints(rows, keys[n].key)
                                    \o PredictedPoints(rows, keys, timeToMinutes(today))
                               ELSE ActualPoints(rows, keys[n].key)]] ]

\* requests the handler serves at a time
MaxRequests == 1

\* GET /api/analytics/stop/:stopId arrives, Number(params.stopId) being stopId
\* (NotNumber: NaN)
StopAnalyticsRequest(stopId) ==
  /\ main = "running"
  /\ Len(requests) < MaxRequests
  /\ IF stopId = NotNumber
     THEN requests' = requests /\ response' = [status |-> 400]
     ELSE /\ requests' = Append(requests, [pc |-> "stop", stopId |-> stopId, stop |-> Null,
                                           today |-> NoDate, visits |-> << >>])
          /\ response' = response
  /\ UNCHANGED <<main, db, refVars, pollVars, refreshVars, now, sweepVars>>

\* the select from stops resolves; const today = new Date()
ReqStopOk(k) ==
  LET stop == {r \in db.stops : r.stopId = requests[k].stopId}
  IN /\ requests[k].pc = "stop"
     /\ IF stop = {}
        THEN requests' = RemoveAt(requests, k) /\ response' = [status |-> 404]
        ELSE /\ requests' = [requests EXCEPT ![k].pc = "visits",
                                             ![k].stop = CHOOSE r \in stop : TRUE,
                                             ![k].today = now]
             /\ response' = response
     /\ UNCHANGED <<main, db, refVars, pollVars, refreshVars, now, sweepVars>>

\* the select from stop_visits resolves
ReqVisitsOk(k) ==
  /\ requests[k].pc = "visits"
  /\ requests' = [requests EXCEPT
                    ![k].pc = "routes",
                    ![k].visits = SelectVisits(db.stopVisits, requests[k].stopId,
                                               requests[k].today - WindowDays * MinutesPerDay)]
  /\ UNCHANGED <<main, db, refVars, pollVars, refreshVars, now, sweepVars, response>>

\* the select from routes resolves: the handler returns its response
ReqRoutesOk(k) ==
  /\ requests[k].pc = "routes"
  /\ requests' = RemoveAt(requests, k)
  /\ response' = StopAnalytics(requests[k].stop, requests[k].today, requests[k].visits,
                               db.routes)
  /\ UNCHANGED <<main, db, refVars, pollVars, refreshVars, now, sweepVars>>

\* the awaited select rejects: the handler throws and the framework answers 500
ReqFail(k) ==
  /\ requests' = RemoveAt(requests, k)
  /\ response' = [status |-> 500]
  /\ UNCHANGED <<main, db, refVars, pollVars, refreshVars, now, sweepVars>>

\* the resources GET /api/proxy/:resource passes on
ProxyAllowed == {"vehicles"} \cup Resources

\* GET /api/proxy/:resource arrives: 404 for a resource not allowed, the
\* cached cycle for vehicles when latestVehiclesCache is not empty, else the
\* handler awaits fetchJson(resource)
ProxyRequest(resource) ==
  /\ Len(requests) < MaxRequests
  /\ IF resource \notin ProxyAllowed
     THEN requests' = requests /\ response' = [status |-> 404]
     ELSE IF resource = "vehicles" /\ Len(latestVehiclesCache) > 0
     THEN /\ requests' = requests
          /\ response' = [status |-> 200,
                          body |-> [fetchedAt |-> latestVehiclesFetchedAt,
                                    vehicles |-> latestVehiclesCache]]
     ELSE /\ requests' = Append(requests, [pc |-> "proxy", resource |-> resource])
          /\ response' = response
  /\ UNCHANGED <<main, db, refVars, pollVars, refreshVars, now, sweepVars>>

\* fetchJson(resource) of the proxy handler resolves: the provider's data is
\* the body
ProxyFetchOk(k, data) ==
  /\ requests[k].pc = "proxy"
  /\ requests' = RemoveAt(requests, k)
  /\ response' = [status |-> 200, body |-> data]
  /\ UNCHANGED <<main, db, refVars, pollVars, refreshVars, now, sweepVars>>

\* ------------------------------------------------------------------ clock
\* days the clock runs past the start of the process
MaxDays == 1

\* time passes
Tick(minutes) ==
  /\ now + minutes <= StartTime + MaxDays * MinutesPerDay
  /\ now' = now + minutes
  /\ UNCHANGED <<main, db, refVars, pollVars, refreshVars, sweepVars, httpVars>>

\* ------------------------------------------------------------------ the sweep and the poll loop
At(day, hour, minute) == day * MinutesPerDay + hour * 60 + minute

\* a stop_visits row as recordStopVisits stores it
StoredVisit(stopId, routeId, observedAt, fetchedAt) ==
  [ stopId |-> stopId, routeId |-> routeId, tripId |-> "T1", vehicleId |-> 1,
    observedAt |-> observedAt, fetchedAt |-> fetchedAt, latitude |-> 65,
    distanceMeters |-> 65 ]

SeqsUpTo(S, n) == UNION {[1..m -> S] : m \in 0..n}

\* rows an earlier run of the process left: just older than the horizon of a
\* sweep started now, exactly on it, and a day old; a visit can be older than
\* its fetch (the provider's timestamp)
SweepVisitRows ==
  { StoredVisit(1, 1, RetentionCutoff(StartTime) - 1, RetentionCutoff(StartTime) - 1),
    StoredVisit(1, 1, RetentionCutoff(StartTime) - 1, RetentionCutoff(StartTime)),
    StoredVisit(1, 1, RetentionCutoff(StartTime), RetentionCutoff(StartTime)),
    StoredVisit(1, 1, StartTime - MinutesPerDay, StartTime - MinutesPerDay) }

SweepSnapshotRows ==
  { [fetchedAt |-> t, vehicleId |-> 1] :
      t \in {RetentionCutoff(StartTime) - 1, RetentionCutoff(StartTime),
             StartTime - MinutesPerDay} }

\* feeds of a vehicle entering stop 1 and leaving it, with no timestamp and
\* with one older than the retention horizon
SweepFeeds ==
  { <<Vehicle(1, 40, 0, 1, "T1", NoDate)>>, <<Vehicle(1, 65, 0, 1, "T1", NoDate)>>,
    <<Vehicle(1, 65, 0, 1, "T1", RetentionCutoff(StartTime) - 1)>> }

\* The process has restarted on a store that earlier runs filled; its first
\* refreshes have succeeded, the first poll cycle and the first sweep are in
\* flight.
InitSweep ==
  /\ main = "running"
  /\ now = StartTime
  /\ \E visits \in SeqsUpTo(SweepVisitRows, MaxVisits) : \E snapshots \in SUBSET SweepSnapshotRows :
       db = [routes |-> TablesOf(DataA).routes, trips |-> TablesOf(DataA).trips,
             stops |-> TablesOf(DataA).stops, stopTimes |-> TablesOf(DataA).stopTimes,
             shapes |-> TablesOf(DataA).shapes, stopVisits |-> visits,
             vehicleSnapshots |-> snapshots, routeDailyStats |-> {}]
  /\ stopsCache = Range(DataA.stops)
  /\ stopById = StopMap(DataA.stops)
  /\ tripByIdCache = TripMap(DataA.trips)
  /\ stopIdsByTripId = StopIdsMap(DataA.stop_times)
  /\ stopInsideByVehicle = {}
  /\ latestVehiclesCache = << >>
  /\ latestVehiclesFetchedAt = NoDate
  /\ refreshRuns = << >>
  /\ refreshTimers = 1
  /\ refreshLog = "ok"
  /\ pollRuns = <<NewPollRun>>
  /\ pollTimers = 0
  /\ pollInterval = 0
  /\ pollHour = 0
  /\ pollLog = "running"
  /\ sweepRuns = <<NewSweepRun>>
  /\ sweepTimers = 0
  /\ sweepDelay = 0
  /\ sweepLog = "running"
  /\ requests = << >>
  /\ response = [status |-> 0]

NextSweep ==
  \/ \E k \in 1..Len(sweepRuns) : SweepSnapshotsOk(k)
  \/ \E k \in 1..Len(sweepRuns) : SweepVisitsOk(k)
  \/ \E k \in 1..Len(sweepRuns) : SweepFail(k)
  \/ SweepTimerFire
  \/ Tick(MinutesPerDay)
  \/ \E k \in 1..Len(pollRuns) : \E hour \in OneHour :
        \E feed \in SweepFeeds : PollFetchOk(k, feed, hour)
  \/ \E k \in 1..Len(pollRuns) : \E hour \in OneHour : PollSnapshotsOk(k, hour)
  \/ \E k \in 1..Len(pollRuns) : \E hour \in OneHour : PollStatsOk(k, hour)
  \/ \E k \in 1..Len(pollRuns) : \E hour \in OneHour : PollVisitsOk(k, hour)
  \/ \E k \in 1..Len(pollRuns) : \E hour \in OneHour : PollFail(k, hour)
  \/ PollTimerFire

SpecSweep == InitSweep /\ [][NextSweep]_vars

\* ------------------------------------------------------------------ the analytics requests
\* rows stop_visits can hold at a time in the runs of the analytics handler
MaxStored == 3

\* observed times: six days ago before and after the time of day of now,
\* yesterday, today, and today by a provider clock that runs ahead of now
\* (observedAt is the provider's timestamp)
StatsTimes ==
  { At(StartDay - 6, 8, 1), At(StartDay - 6, 8, 16), At(StartDay - 1, 8, 1),
    At(StartDay - 1, 8, 16), At(StartDay, 8, 3), At(StartDay, 8, 20) }

\* visits of stop 1 by route 1, by a route the routes table does not hold and
\* with no route, and a visit of stop 2
StatsRows ==
  {StoredVisit(1, route, t, t) : route \in {1, 7, NotNumber}, t \in StatsTimes}
  \cup {StoredVisit(2, 1, At(StartDay - 1, 8, 16), At(StartDay - 1, 8, 16))}

\* Number(params.stopId): a known stop, a stop without visits of its own
\* route, an unknown stop, NaN
StopParams == {1, 2, 9, NotNumber}

\* the running process between two cycles of each loop, at 08:10 on StartDay
Idle(visits, date) ==
  /\ main = "running"
  /\ now = date
  /\ db = [routes |-> TablesOf(DataA).routes, trips |-> TablesOf(DataA).trips,
           stops |-> TablesOf(DataA).stops, stopTimes |-> TablesOf(DataA).stopTimes,
           shapes |-> TablesOf(DataA).shapes, stopVisits |-> visits,
           vehicleSnapshots |-> {}, routeDailyStats |-> {}]
  /\ stopsCache = Range(DataA.stops)
  /\ stopById = StopMap(DataA.stops)
  /\ tripByIdCache = TripMap(DataA.trips)
  /\ stopIdsByTripId = StopIdsMap(DataA.stop_times)
  /\ stopInsideByVehicle = {}
  /\ latestVehiclesCache = << >>
  /\ latestVehiclesFetchedAt = NoDate
  /\ refreshRuns = << >>
  /\ refreshTimers = 1
  /\ refreshLog = "ok"
  /\ pollRuns = << >>
  /\ pollTimers = 1
  /\ pollInterval = POLL_DAY_INTERVAL_MS
  /\ pollHour = 8
  /\ pollLog = "ok"
  /\ sweepRuns = << >>
  /\ sweepTimers = 1
  /\ sweepDelay = SweepDelayMs
  /\ sweepLog = "ok"
  /\ response = [status |-> 0]

InitStats ==
  /\ \E visits \in SeqsUpTo(StatsRows, MaxStored) : Idle(visits, StartTime)
  /\ requests = << >>

NextStats ==
  \/ \E stopId \in StopParams : StopAnalyticsRequest(stopId)
  \/ \E k \in 1..Len(requests) : ReqStopOk(k)
  \/ \E k \in 1..Len(requests) : ReqVisitsOk(k)
  \/ \E k \in 1..Len(requests) : ReqRoutesOk(k)
  \/ \E k \in 1..Len(requests) : ReqFail(k)

SpecStats == InitStats /\ [][NextStats]_vars

\* ------------------------------------------------------------------ the predicted times
\* days of history before the day of the request, and runs of the route on
\* one of them
HistoryDays == 3

MaxRuns == 2

\* the minutes after midnight route 1 is observed at, `back` days before today
RunMinutes(back) ==
  CASE back = 1 -> {6, 22, 18}
    [] back = 2 -> {7, 18, 5}
    [] OTHER -> {5, 20, 7}

\* stop_visits rows of route 1 at stop 1 for the days today - back .. today - 1,
\* the newest day first, each day's runs in the order they were stored in
RECURSIVE PredictRows(_)
PredictRows(back) ==
  IF back > HistoryDays THEN {<< >>}
  ELSE { [n \in 1..Len(runs) |->
            StoredVisit(1, 1, At(StartDay - back, 0, runs[n]), At(StartDay - back, 0, runs[n]))]
           \o older :
           runs \in SeqsUpTo(RunMinutes(back), MaxRuns), older \in PredictRows(back + 1) }

\* A request for stop 1 made at 00:00 of StartDay has selected its visits and
\* awaits the routes.
InitPredict ==
  \E visits \in PredictRows(1) :
    /\ Idle(visits, At(StartDay, 0, 0))
    /\ requests = << [pc |-> "routes", stopId |-> 1,
                      stop |-> CHOOSE r \in TablesOf(DataA).stops : r.stopId = 1,
                      today |-> At(StartDay, 0, 0),
                      visits |-> SelectVisits(visits, 1,
                                              At(StartDay, 0, 0) - WindowDays * MinutesPerDay)] >>

NextPredict ==
  \/ \E k \in 1..Len(requests) : ReqRoutesOk(k)
  \/ \E k \in 1..Len(requests) : ReqFail(k)

SpecPredict == InitPredict /\ [][NextPredict]_vars

\* ------------------------------------------------------------------ the daily statistics
\* feeds of a vehicle standing at stop 1: of route 1, of route 2 and of no
\* numeric route; and of the vehicle of route 1 having left the stop
DailyFeeds ==
  { <<Vehicle(1, 40, 0, 1, "T1", NoDate)>>, <<Vehicle(1, 40, 0, 2, "T2", NoDate)>>,
    <<Vehicle(1, 65, 0, 1, "T1", NoDate)>>,
    <<Vehicle(1, 40, 0, NotNumber, "T1", NoDate)>> }

\* the time that passes between two steps: 8 and 16 hours, so that cycles start
\* at 08:10, 16:10, 00:10 (the UTC day before its local day) and 08:10
DailySteps == {8 * 60, 16 * 60}

\* The process between two poll cycles, on an empty route_daily_stats table.
InitDaily ==
  /\ Idle(<< >>, StartTime)
  /\ requests = << >>

\* the poll loop over the day
NextDaily ==
  \/ \E k \in 1..Len(pollRuns) : \E hour \in OneHour :
        \E feed \in DailyFeeds : PollFetchOk(k, feed, hour)
  \/ \E k \in 1..Len(pollRuns) : \E hour \in OneHour : PollSnapshotsOk(k, hour)
  \/ \E k \in 1..Len(pollRuns) : \E hour \in OneHour : PollStatsOk(k, hour)
  \/ \E k \in 1..Len(pollRuns) : \E hour \in OneHour : PollVisitsOk(k, hour)
  \/ \E k \in 1..Len(pollRuns) : \E hour \in OneHour : PollFail(k, hour)
  \/ PollTimerFire
  \/ \E minutes \in DailySteps : Tick(minutes)

SpecDaily == InitDaily /\ [][NextDaily]_vars

\* ------------------------------------------------------------------ the proxy
\* vehicle feeds of the provider: no vehicle in service, and one
ProxyFeeds == {<< >>, <<Vehicle(1, 40, 0, 1, "T1", NoDate)>>}

\* what the provider answers for a resource
ProviderData(resource) ==
  IF resource = "vehicles" THEN ProxyFeeds ELSE {DataA[resource], DataB[resource]}

\* resources asked of the proxy; agency is not one it passes on
ProxyParams == {"vehicles", "routes", "agency"}

\* the poll loop and the proxy's clients
NextProxy ==
  \/ \E resource \in ProxyParams : ProxyRequest(resource)
  \/ \E k \in 1..Len(requests) : \E data \in ProviderData(requests[k].resource) :
        ProxyFetchOk(k, data)
  \/ \E k \in 1..Len(requests) : ReqFail(k)
  \/ \E k \in 1..Len(pollRuns) : \E hour \in OneHour :
        \E feed \in ProxyFeeds : PollFetchOk(k, feed, hour)
  \/ \E k \in 1..Len(pollRuns) : \E hour \in OneHour : PollSnapshotsOk(k, hour)
  \/ \E k \in 1..Len(pollRuns) : \E hour \in OneHour : PollStatsOk(k, hour)
  \/ \E k \in 1..Len(pollRuns) : \E hour \in OneHour : PollFail(k, hour)
  \/ PollTimerFire

SpecProxy == InitPoll /\ [][NextProxy]_vars

\* ------------------------------------------------------------------ requests during a refresh
\* the refresh loop, on either version of the provider's data, and the
\* clients of the stop analytics
NextLookup ==
  \/ \E k \in 1..Len(refreshRuns) : \E data \in Datasets : RefreshFetchOk(k, data)
  \/ \E k \in 1..Len(refreshRuns) : RefreshDeleteOk(k)
  \/ \E k \in 1..Len(refreshRuns) : RefreshUpsertRoutesOk(k)
  \/ \E k \in 1..Len(refreshRuns) : RefreshInsertOk(k)
  \/ \E k \in 1..Len(refreshRuns) : RefreshLoadStopsOk(k)
  \/ \E k \in 1..Len(refreshRuns) : \E res \in Resources : RefreshFail(k, res)
  \/ RefreshTimerFire
  \/ \E stopId \in StopParams : StopAnalyticsRequest(stopId)
  \/ \E k \in 1..Len(requests) : ReqStopOk(k)
  \/ \E k \in 1..Len(requests) : ReqVisitsOk(k)
  \/ \E k \in 1..Len(requests) : ReqRoutesOk(k)
  \/ \E k \in 1..Len(requests) : ReqFail(k)

SpecLookup == InitDaily /\ [][NextLookup]_vars

\* ------------------------------------------------------------------ the three loops
\* the feed of a provider with no vehicle in service
NoVehicles == {<< >>}

\* the startup and the three loops it starts, the poll loop on an empty feed
NextLoops ==
  \/ \E k \in 1..Len(refreshRuns) : \E data \in Datasets : RefreshFetchOk(k, data)
  \/ \E k \in 1..Len(refreshRuns) : RefreshDeleteOk(k)
  \/ \E k \in 1..Len(refreshRuns) : RefreshUpsertRoutesOk(k)
  \/ \E k \in 1..Len(refreshRuns) : RefreshInsertOk(k)
  \/ \E k \in 1..Len(refreshRuns) : RefreshLoadStopsOk(k)
  \/ \E k \in 1..Len(refreshRuns) : \E res \in Resources : RefreshFail(k, res)
  \/ RefreshTimerFire
  \/ StartupLoadOk
  \/ StartupLoadFail
  \/ \E k \in 1..Len(pollRuns) : \E hour \in OneHour :
        \E feed \in NoVehicles : PollFetchOk(k, feed, hour)
  \/ \E k \in 1..Len(pollRuns) : \E hour \in OneHour : PollFail(k, hour)
  \/ PollTimerFire
  \/ \E k \in 1..Len(sweepRuns) : SweepSnapshotsOk(k)
  \/ \E k \in 1..Len(sweepRuns) : SweepVisitsOk(k)
  \/ \E k \in 1..Len(sweepRuns) : SweepFail(k)
  \/ SweepTimerFire

SpecLoops == Init /\ [][NextLoops]_vars

\* every step of the three loops and of the startup but the settling of a
\* provider fetch: a database call settles, a timer fires
LocalStep ==
  \/ \E k \in 1..Len(refreshRuns) : RefreshDeleteOk(k)
  \/ \E k \in 1..Len(refreshRuns) : RefreshUpsertRoutesOk(k)
  \/ \E k \in 1..Len(refreshRuns) : RefreshInsertOk(k)
  \/ \E k \in 1..Len(refreshRuns) : RefreshLoadStopsOk(k)
  \/ RefreshTimerFire
  \/ StartupLoadOk
  \/ StartupLoadFail
  \/ PollTimerFire
  \/ \E k \in 1..Len(sweepRuns) : SweepSnapshotsOk(k)
  \/ \E k \in 1..Len(sweepRuns) : SweepVisitsOk(k)
  \/ \E k \in 1..Len(sweepRuns) : SweepFail(k)
  \/ SweepTimerFire

\* the same process when fetchJson may never settle (no timeout, no
\* cancellation) while every database call settles and every timer fires
SpecHang == SpecLoops /\ WF_vars(LocalStep)

\* ------------------------------------------------------------------ the poll loop at dawn
\* minutes followed from 05:59 on
DawnMinutes == 6

\* The process at 05:59: the last poll cycle settled in the night and armed
\* its timer; the provider has no vehicle in service.
InitDawn ==
  /\ main = "running"
  /\ now = At(StartDay, 5, 59)
  /\ db = [routes |-> TablesOf(DataA).routes, trips |-> TablesOf(DataA).trips,
           stops |-> TablesOf(DataA).stops, stopTimes |-> TablesOf(DataA).stopTimes,
           shapes |-> TablesOf(DataA).shapes, stopVisits |-> << >>,
           vehicleSnapshots |-> {}, routeDailyStats |-> {}]
  /\ stopsCache = Range(DataA.stops)
  /\ stopById = StopMap(DataA.stops)
  /\ tripByIdCache = TripMap(DataA.trips)
  /\ stopIdsByTripId = StopIdsMap(DataA.stop_times)
  /\ stopInsideByVehicle = {}
  /\ latestVehiclesCache = << >>
  /\ latestVehiclesFetchedAt = NoDate
  /\ refreshRuns = << >>
  /\ refreshTimers = 1
  /\ refreshLog = "ok"
  /\ pollRuns = << >>
  /\ pollTimers = 1
  /\ pollInterval = POLL_NIGHT_INTERVAL_MS
  /\ pollHour = 5
  /\ pollLog = "ok"
  /\ sweepRuns = << >>
  /\ sweepTimers = 1
  /\ sweepDelay = SweepDelayMs
  /\ sweepLog = "ok"
  /\ requests = << >>
  /\ response = [status |-> 0]

\* the poll loop as the minutes pass, the hour read from the clock when the
\* cycle settles
NextDawn ==
  \/ \E k \in 1..Len(pollRuns) : \E hour \in {getHours(now)} :
        \E feed \in NoVehicles : PollFetchOk(k, feed, hour)
  \/ \E k \in 1..Len(pollRuns) : \E hour \in {getHours(now)} : PollFail(k, hour)
  \/ PollTimerFire
  \/ now < At(StartDay, 5, 59) + DawnMinutes /\ Tick(1)

SpecDawn == InitDawn /\ [][NextDawn]_vars

\* ------------------------------------------------------------------ claims
\* A step in which recordStopVisits runs: the one poll cycle in flight leaves
\* its fetch, snapshot or stats await and reaches the stop_visits insert or
\* its successful end.
Detecting ==
  /\ Len(pollRuns) = 1
  /\ pollRuns[1].pc # "visits"
  /\ \/ Len(pollRuns') = 1 /\ pollRuns'[1].pc = "visits"
     \/ pollRuns' = << >> /\ pollLog' = "ok"

\* the vehicles of that cycle and the StopVisit events it emits
Fed == latestVehiclesCache'

Emitted ==
  IF Len(pollRuns') = 1 /\ pollRuns'[1].pc = "visits" THEN pollRuns'[1].events ELSE << >>

EventsFor(events, vehicleId, stopId) ==
  {m \in 1..Len(events) : events[m].vehicleId = vehicleId /\ events[m].stopId = stopId}

Metres(vehicle, stopId) == Abs(stopById[stopId].stop_lat - vehicle.latitude)

HasPosition(vehicle) == vehicle.latitude # NotNumber /\ vehicle.longitude # NotNumber

\* a vehicle the detector processes: numeric position and route, a trip known
\* to both trip caches with at least one stop, and the trip's route its own
Qualifies(vehicle) ==
  /\ HasPosition(vehicle)
  /\ vehicle.route_id # NotNumber
  /\ vehicle.trip_id # Null
  /\ vehicle.trip_id \in DOMAIN tripByIdCache
  /\ vehicle.trip_id \in DOMAIN stopIdsByTripId
  /\ tripByIdCache[vehicle.trip_id].routeId = vehicle.route_id

TripStops(vehicle) == Range(stopIdsByTripId[vehicle.trip_id]) \cap DOMAIN stopById

\* C1: at most one poll cycle is running or pending: the runs of scheduleLoop
\* in flight and its armed timers never number more than one together.
PollCyclesNeverOverlap == Len(pollRuns) + pollTimers <= 1

\* a cycle has settled and its timer, the only pending cycle, is armed
PollTimerArmedAfterCycle == pollTimers = 1 /\ pollRuns = << >> /\ pollLog = "ok"

\* C2: a cycle that fails, at whichever await, ends with exactly one timer
\* armed and no run in flight; and, every I/O call settling and every timer
\* firing, the poll timer fires (a cycle starts) infinitely often.
PollLoopSurvivesFailures ==
  /\ [][(Len(pollRuns) = 1 /\ pollRuns' = << >> /\ pollLog' # "ok")
          => (pollTimers = 0 /\ pollTimers' = 1
              /\ pollLog' \in {"fetch", "snapshots", "stats", "visits"})]_vars
  /\ []<><<PollTimerFire>>_vars

\* a cycle failed at its last await, the stop_visits insert, and the next is armed
PollTimerArmedAfterFailure == pollTimers = 1 /\ pollRuns = << >> /\ pollLog = "visits"

\* C3: the armed timer's delay is 15 000 ms when the hour read at settling
\* is in 6..23 and 60 000 ms when it is in 0..5.
IntervalSelection ==
  pollTimers > 0 =>
    /\ pollHour \in 0..23
    /\ pollInterval = IF 6 <= pollHour /\ pollHour <= 23 THEN 15000 ELSE 60000

\* a cycle settled at 02:00 and armed the night interval
NightIntervalArmed == pollTimers = 1 /\ pollHour = 2 /\ pollInterval = 60000

\* C4: a cycle emits no StopVisit for a vehicle of its feed that has no trip
\* id or whose trip's cached route is not the route it reports.
NoVisitWithoutMatchingTrip ==
  [][Detecting =>
       \A n \in 1..Len(Fed) :
         (\/ Fed[n].trip_id = Null
          \/ /\ Fed[n].trip_id \in DOMAIN tripByIdCache
             /\ tripByIdCache[Fed[n].trip_id].routeId # Fed[n].route_id)
         => \A m \in 1..Len(Emitted) : Emitted[m].vehicleId # Fed[n].id]_vars

\* a cycle has ended on a feed whose vehicle, marked inside a stop and now
\* beyond its exit radius, reports a route other than its trip's
MismatchedVehicleStaysInside ==
  /\ pollRuns = << >> /\ pollLog = "ok"
  /\ \E n \in 1..Len(latestVehiclesCache) :
       LET v == latestVehiclesCache[n]
       IN /\ HasPosition(v)
          /\ v.trip_id \in DOMAIN tripByIdCache
          /\ v.route_id # NotNumber
          /\ tripByIdCache[v.trip_id].routeId # v.route_id
          /\ \E s \in DOMAIN stopById :
               <<v.id, s>> \in stopInsideByVehicle /\ Metres(v, s) > 60

\* C5: every StopVisit emitted is for a stop in the stop set of the trip its
\* vehicle reports, and that trip's cached route is the route the vehicle
\* reports, in the caches as they are when the detector runs.
VisitOnlyOnTripStops ==
  [][Detecting =>
       \A m \in 1..Len(Emitted) :
         LET e == Emitted[m]
         IN /\ \E n \in 1..Len(Fed) :
                 /\ Fed[n].id = e.vehicleId
                 /\ Fed[n].trip_id = e.tripId
                 /\ Fed[n].route_id = e.routeId
            /\ e.tripId \in DOMAIN stopIdsByTripId
            /\ e.stopId \in Range(stopIdsByTripId[e.tripId])
            /\ e.tripId \in DOMAIN tripByIdCache
            /\ tripByIdCache[e.tripId].routeId = e.routeId]_vars

\* a StopVisit awaits its insert while a static refresh is in flight
VisitEmittedDuringRefresh ==
  /\ Len(pollRuns) = 1 /\ pollRuns[1].pc = "visits"
  /\ Len(refreshRuns) = 1 /\ refreshRuns[1].pc # "fetch"

\* C6: in a cycle that reports a qualifying vehicle within 50 m of a stop of
\* its trip, the pair is inside afterwards and no StopVisit is emitted for
\* it; and feeding any cycle's feed to the detector once more changes
\* nothing in the containment set and emits nothing.
SamePositionIdempotent ==
  [][Detecting =>
       /\ \A n \in 1..Len(Fed) :
            Qualifies(Fed[n]) =>
              \A s \in TripStops(Fed[n]) :
                Metres(Fed[n], s) <= 50 =>
                  /\ <<Fed[n].id, s>> \in stopInsideByVehicle'
                  /\ EventsFor(Emitted, Fed[n].id, s) = {}
       /\ RecordStopVisits(now, Fed, stopInsideByVehicle')
            = [inside |-> stopInsideByVehicle', events |-> << >>]]_vars

\* a cycle has ended with a vehicle still inside a stop it is within 50 m of
InZoneVehicleInside ==
  /\ pollRuns = << >> /\ pollLog = "ok"
  /\ \E n \in 1..Len(latestVehiclesCache) :
       LET v == latestVehiclesCache[n]
       IN /\ Qualifies(v)
          /\ \E s \in TripStops(v) :
               Metres(v, s) <= 50 /\ <<v.id, s>> \in stopInsideByVehicle

\* C7: the containment set changes in no step but the detector's, and a
\* cycle that reports a vehicle more than 50 m and at most 60 m from a stop
\* leaves that pair's containment as it was and emits no StopVisit for it.
HysteresisBand ==
  [][/\ ~Detecting => stopInsideByVehicle' = stopInsideByVehicle
     /\ Detecting =>
          \A n \in 1..Len(Fed) : \A s \in DOMAIN stopById :
            (HasPosition(Fed[n]) /\ Metres(Fed[n], s) > 50 /\ Metres(Fed[n], s) <= 60)
            => /\ <<Fed[n].id, s>> \in stopInsideByVehicle'
                 <=> <<Fed[n].id, s>> \in stopInsideByVehicle
               /\ EventsFor(Emitted, Fed[n].id, s) = {}]_vars

\* a cycle has ended with a qualifying vehicle inside a stop of its trip
\* that it is 55 m from
VehicleInsideInBand ==
  /\ pollRuns = << >> /\ pollLog = "ok"
  /\ \E n \in 1..Len(latestVehiclesCache) :
       LET v == latestVehiclesCache[n]
       IN /\ Qualifies(v)
          /\ \E s \in TripStops(v) :
               Metres(v, s) = 55 /\ <<v.id, s>> \in stopInsideByVehicle

\* C8: for a qualifying vehicle and a stop of its trip: a cycle that finds
\* the pair outside and within 50 m marks it inside and emits nothing for
\* it; a cycle that finds it inside and beyond 60 m marks it outside and
\* emits exactly one StopVisit for it; a cycle that finds it outside and
\* beyond 50 m leaves it outside and emits nothing for it.
OneVisitPerExit ==
  [][Detecting =>
       \A n \in 1..Len(Fed) :
         Qualifies(Fed[n]) =>
           \A s \in TripStops(Fed[n]) :
             LET pair == <<Fed[n].id, s>>
                 d == Metres(Fed[n], s)
                 count == Cardinality(EventsFor(Emitted, Fed[n].id, s))
             IN /\ (pair \notin stopInsideByVehicle /\ d <= 50)
                    => (pair \in stopInsideByVehicle' /\ count = 0)
                /\ (pair \in stopInsideByVehicle /\ d > 60)
                    => (pair \notin stopInsideByVehicle' /\ count = 1)
                /\ (pair \notin stopInsideByVehicle /\ d > 50)
                    => (pair \notin stopInsideByVehicle' /\ count = 0)]_vars

\* the exit cycle: the one StopVisit of a vehicle 65 m from the stop it has
\* left awaits its insert
ExitVisitEmitted ==
  /\ Len(pollRuns) = 1 /\ pollRuns[1].pc = "visits"
  /\ \E m \in 1..Len(pollRuns[1].events) :
       LET e == pollRuns[1].events[m]
       IN /\ e.distanceMeters = 65
          /\ <<e.vehicleId, e.stopId>> \notin stopInsideByVehicle
          /\ Cardinality(EventsFor(pollRuns[1].events, e.vehicleId, e.stopId)) = 1

\* C9: when a cycle whose detector marked pairs outside settles, the
\* stop_visits table has gained exactly the rows of that cycle's events,
\* whether or not a store write of the cycle failed.
VisitStoredOncePerEpisode ==
  [][(Len(pollRuns) = 1 /\ pollRuns[1].pc = "visits" /\ pollRuns' = << >>)
       => db'.stopVisits
            = db.stopVisits
                \o SubSeq(pollRuns[1].events, pollRuns[1].i + 1, Len(pollRuns[1].events))]_vars

\* C10: when a static refresh fails, the reference tables and the caches
\* are what they were when that refresh started.
RefreshFailureLeavesStateIntact ==
  [][(Len(refreshRuns) = 1 /\ refreshRuns' = << >> /\ refreshLog' = "failed")
       => RefState' = refreshRuns[1].before]_vars

\* the four reference caches as buildStaticCaches leaves them on a version
\* of the provider's data
CachesOf(data) ==
  [ stopsCache |-> Range(data.stops), stopById |-> StopMap(data.stops),
    tripByIdCache |-> TripMap(data.trips),
    stopIdsByTripId |-> StopIdsMap(data.stop_times) ]

CachesNow ==
  [ stopsCache |-> stopsCache, stopById |-> stopById,
    tripByIdCache |-> tripByIdCache, stopIdsByTripId |-> stopIdsByTripId ]

\* C11: while a static refresh is in flight, the four reference caches are
\* all as they were when it was called or all built from the data it fetched.
CachesSwappedAtomically ==
  \A k \in 1..Len(refreshRuns) :
    LET run == refreshRuns[k]
    IN \/ CachesNow = [ stopsCache |-> run.before.stopsCache,
                        stopById |-> run.before.stopById,
                        tripByIdCache |-> run.before.tripByIdCache,
                        stopIdsByTripId |-> run.before.stopIdsByTripId ]
       \/ run.pc # "fetch" /\ CachesNow = CachesOf(run.data)

\* C12: when a static refresh succeeds, each reference table holds exactly
\* the rows of the data that refresh fetched.
TablesReplacedWholesale ==
  [][(Len(refreshRuns) = 1 /\ refreshRuns' = << >> /\ refreshLog' = "ok")
       => /\ db'.routes = TablesOf(refreshRuns[1].data).routes
          /\ db'.trips = TablesOf(refreshRuns[1].data).trips
          /\ db'.stops = TablesOf(refreshRuns[1].data).stops
          /\ db'.stopTimes = TablesOf(refreshRuns[1].data).stopTimes
          /\ db'.shapes = TablesOf(refreshRuns[1].data).shapes]_vars

\* C13: every stop id in a stop set of stopIdsByTripId and every stop id of
\* a pair of stopInsideByVehicle is a key of stopById.
NoOrphanStopIds ==
  /\ \A trip \in DOMAIN stopIdsByTripId :
       Range(stopIdsByTripId[trip]) \subseteq DOMAIN stopById
  /\ \A pair \in stopInsideByVehicle : pair[2] \in DOMAIN stopById

\* C14: when a sweep ends without error, no vehicle_snapshots row has a
\* fetchedAt, and no stop_visits row an observedAt, before the cutoff that
\* sweep computed, which is 30 days before the time it was called at or later.
SweepLeavesNoOldRows ==
  [][(Len(sweepRuns) = 1 /\ sweepRuns' = << >> /\ sweepLog' = "ok")
       => /\ sweepRuns[1].cutoff + 30 * 1440 <= now
          /\ \A r \in db'.vehicleSnapshots : r.fetchedAt >= sweepRuns[1].cutoff
          /\ \A n \in 1..Len(db'.stopVisits) :
               db'.stopVisits[n].observedAt >= sweepRuns[1].cutoff]_vars

\* the first sweep has ended without error, rows on its cutoff are kept
SweepKeptRowsOnCutoff ==
  /\ sweepRuns = << >> /\ sweepLog = "ok" /\ now = StartTime
  /\ [fetchedAt |-> RetentionCutoff(StartTime), vehicleId |-> 1] \in db.vehicleSnapshots
  /\ \E n \in 1..Len(db.stopVisits) :
       db.stopVisits[n].observedAt = RetentionCutoff(StartTime)

\* the step in which the handler answers 200
Answered ==
  /\ Len(requests) = 1 /\ requests[1].pc = "routes"
  /\ requests' = << >> /\ response'.status = 200

\* the non-predicted points of route under the day entry dated day
PointsOf(res) ==
  UNION {{<<n, m>> : m \in 1..Len(res.days[n].points)} : n \in 1..Len(res.days)}

ActualOf(res, day, route) ==
  {p \in PointsOf(res) :
     /\ res.days[p[1]].date = day
     /\ ~res.days[p[1]].points[p[2]].predicted
     /\ res.days[p[1]].points[p[2]].routeId = route}

\* C15: every stored visit of the requested stop, by a route in the routes
\* table, observed on one of the days today - 6 .. today, has its time of day
\* among the non-predicted points of its route under the entry of its day.
VisitShownUnderItsDay ==
  [][Answered =>
       \A n \in 1..Len(db.stopVisits) :
         LET v == db.stopVisits[n]
             T == v.observedAt
         IN (/\ v.stopId = requests[1].stopId
             /\ v.routeId \in {r.routeId : r \in db.routes}
             /\ T \div 1440 \in ((requests[1].today \div 1440) - 6)..(requests[1].today \div 1440))
            => \E p \in ActualOf(response', T \div 1440, v.routeId) :
                 2 * (T % 1440) \in Range(response'.days[p[1]].points[p[2]].minutes)]_vars

\* the visits of a request's stop the store holds with a route that is null
\* or not in the routes table, and the store's visits without them
Unknown(v) == v.routeId = NotNumber \/ v.routeId \notin {r.routeId : r \in db.routes}

KnownOnly(visits) ==
  LET Known(v) == ~Unknown(v)
  IN SelectSeq(visits, Known)

\* C16: the 200 response names no route that is null or not in the routes
\* table, in `routes` or in a point, and is the response the same store
\* without the visits of such routes gets.
UnknownRoutesExcluded ==
  [][Answered =>
       /\ \A n \in 1..Len(response'.routes) :
            response'.routes[n].routeId \in {r.routeId : r \in db.routes}
       /\ \A p \in PointsOf(response') :
            response'.days[p[1]].points[p[2]].routeId \in {r.routeId : r \in db.routes}
       /\ response' = StopAnalytics(requests[1].stop, requests[1].today,
                                    SelectVisits(KnownOnly(db.stopVisits), requests[1].stopId,
                                                 requests[1].today - 6 * 1440),
                                    db.routes)]_vars

\* stop 1 was answered 200 while the store holds, for it, a visit of
\* yesterday by route 7, which the routes table does not hold, and one with
\* no route
UnknownRouteVisitAnswered ==
  /\ requests = << >> /\ response.status = 200 /\ response.stop.stopId = 1
  /\ \E n \in 1..Len(db.stopVisits) :
       /\ db.stopVisits[n].stopId = 1 /\ db.stopVisits[n].routeId = 7
       /\ db.stopVisits[n].observedAt = At(StartDay - 1, 8, 16)
  /\ \E n \in 1..Len(db.stopVisits) :
       db.stopVisits[n].stopId = 1 /\ db.stopVisits[n].routeId = NotNumber

\* C17: a known stop with no visit in the window is answered 200 with an
\* empty day list.
NoHistoryEmptyDayList ==
  [][(/\ Len(requests) = 1 /\ requests[1].pc = "routes" /\ requests' = << >>
      /\ response'.status # 500
      /\ \A n \in 1..Len(db.stopVisits) :
           \/ db.stopVisits[n].stopId # requests[1].stopId
           \/ db.stopVisits[n].observedAt \div 1440 < (requests[1].today \div 1440) - 6)
       => (response'.status = 200 /\ response'.days = << >>)]_vars

\* the points of today's entry for a route, observed or predicted
TodayPoints(res, route, predicted) ==
  {p \in PointsOf(res) :
     /\ res.days[p[1]].isToday
     /\ res.days[p[1]].points[p[2]].predicted = predicted
     /\ res.days[p[1]].points[p[2]].routeId = route}

\* the stored visits of the request's stop by a route on the day of the request
SeenToday(route) ==
  {n \in 1..Len(db.stopVisits) :
     /\ db.stopVisits[n].stopId = requests[1].stopId
     /\ db.stopVisits[n].routeId = route
     /\ db.stopVisits[n].observedAt \div 1440 = requests[1].today \div 1440}

\* the predicted sequence of a route, from the visits the request selected
PredictedSequence(route) ==
  predictedByRoute(WindowVisits(knownVisits(requests[1].visits, db.routes),
                                dayKeys(requests[1].today)),
                   dayKeys(requests[1].today), route)

Occurrences(seq, value) == Cardinality({m \in 1..Len(seq) : seq[m] = value})

\* C19: in the 200 response, for every route of the routes table, today's
\* entry has a non-predicted point exactly when the route was observed today,
\* holding the times of day of all of today's visits in ascending order, and
\* a predicted point exactly when the route's predicted sequence has an entry
\* later than the time of day of the request, holding exactly those entries.
TodayActualPlusFuturePredicted ==
  [][Answered =>
       \A route \in {r.routeId : r \in db.routes} :
         LET actual == TodayPoints(response', route, FALSE)
             predicted == TodayPoints(response', route, TRUE)
             seen == SeenToday(route)
             nowMinutes == 2 * (requests[1].today % 1440)
             Later(value) == value > nowMinutes
             future == SelectSeq(PredictedSequence(route), Later)
         IN /\ Cardinality(actual) = IF seen = {} THEN 0 ELSE 1
            /\ \A p \in actual :
                 LET minutes == response'.days[p[1]].points[p[2]].minutes
                 IN /\ Len(minutes) = Cardinality(seen)
                    /\ \A m \in 1..(Len(minutes) - 1) : minutes[m] <= minutes[m + 1]
                    /\ \A n \in seen :
                         Occurrences(minutes, 2 * (db.stopVisits[n].observedAt % 1440))
                           = Cardinality({o \in seen : db.stopVisits[o].observedAt % 1440
                                                         = db.stopVisits[n].observedAt % 1440})
            /\ Cardinality(predicted) = IF future = << >> THEN 0 ELSE 1
            /\ \A p \in predicted :
                 response'.days[p[1]].points[p[2]].minutes = future]_vars

\* route 1 visited stop 1 yesterday at 08:01 and 08:16 and today at 08:03;
\* the request of 08:10 was answered with today's entry holding the observed
\* 08:03 and the predicted 08:16, in half minutes, and nothing for 08:01
PastPredictionOmitted ==
  /\ requests = << >> /\ response.status = 200 /\ response.stop.stopId = 1
  /\ {db.stopVisits[n].observedAt : n \in 1..Len(db.stopVisits)}
       = {At(StartDay - 1, 8, 1), At(StartDay - 1, 8, 16), At(StartDay, 8, 3)}
  /\ \A n \in 1..Len(db.stopVisits) :
       db.stopVisits[n].stopId = 1 /\ db.stopVisits[n].routeId = 1
  /\ response.days[7].isToday
  /\ response.days[7].points
       = << [routeId |-> 1, minutes |-> <<966>>, predicted |-> FALSE],
            [routeId |-> 1, minutes |-> <<992>>, predicted |-> TRUE] >>

\* C20: in the 200 response, for every route with k visits observed today,
\* the predicted times of today's entry are entries of the route's predicted
\* sequence of run index k or more: each value occurs among them no more
\* often than in the predicted sequence from index k on.
NoPredictionForObservedRuns ==
  [][Answered =>
       \A route \in {r.routeId : r \in db.routes} :
         LET k == Cardinality(SeenToday(route))
             sequence == PredictedSequence(route)
             unobserved == SubSeq(sequence, k + 1, Len(sequence))
         IN \A p \in TodayPoints(response', route, TRUE) :
              \A value \in Range(response'.days[p[1]].points[p[2]].minutes) :
                Occurrences(response'.days[p[1]].points[p[2]].minutes, value)
                  <= Occurrences(unobserved, value)]_vars

\* the k-th smallest of a sequence of numbers, k from 1
KthSmallest(seq, k) ==
  CHOOSE v \in Range(seq) :
    /\ Cardinality({m \in 1..Len(seq) : seq[m] < v}) < k
    /\ k <= Cardinality({m \in 1..Len(seq) : seq[m] <= v})

\* the 50th percentile with linear interpolation of a non-empty sequence:
\* its middle value, or the mean of its two middle values
Median(seq) ==
  IF Len(seq) % 2 = 1 THEN KthSmallest(seq, (Len(seq) + 1) \div 2)
  ELSE (KthSmallest(seq, Len(seq) \div 2) + KthSmallest(seq, Len(seq) \div 2 + 1)) \div 2

LongestDay(days) ==
  IF days = << >> THEN 0
  ELSE CHOOSE n \in {Len(days[d]) : d \in 1..Len(days)} : \A d \in 1..Len(days) : Len(days[d]) <= n

\* per run index, the median of that run's time over the days that have it
PositionalMedians(days) ==
  [i \in 1..LongestDay(days) |->
     LET Has(day) == Len(day) >= i
         having == SelectSeq(days, Has)
     IN Median([d \in 1..Len(having) |-> KthSmallest(having[d], i)])]

\* the times of day, in half minutes and in stored order, of the request's
\* visits of route 1 on each of the six days before the request, oldest first;
\* a day without a visit is an empty sequence
DaySequences ==
  [d \in 1..6 |->
     LET OnDay(v) == v.routeId = 1 /\ v.observedAt \div 1440 = (requests[1].today \div 1440) - 7 + d
         onDay == SelectSeq(requests[1].visits, OnDay)
     IN [n \in 1..Len(onDay) |-> 2 * (onDay[n].observedAt % 1440)]]

NonEmpty(days) ==
  LET Some(day) == Len(day) > 0
  IN SelectSeq(days, Some)

\* C18: buildPredictedTimes, given the day sequences of a route (sorted or
\* not, with or without the days that have no run), returns one entry per run
\* index below the longest day's length, the median with linear interpolation
\* of the i-th smallest time of every day with more than i runs; and these
\* are the predicted times of the route in the response of 00:00.
PositionalPercentileMerge ==
  [][Answered =>
       /\ buildPredictedTimes(DaySequences) = PositionalMedians(DaySequences)
       /\ buildPredictedTimes(NonEmpty(DaySequences)) = PositionalMedians(DaySequences)
       /\ Len(buildPredictedTimes(DaySequences)) = LongestDay(DaySequences)
       /\ \A p \in TodayPoints(response', 1, TRUE) :
            response'.days[p[1]].points[p[2]].minutes = PositionalMedians(DaySequences)
       /\ (TodayPoints(response', 1, TRUE) = {}) = (LongestDay(DaySequences) = 0)]_vars

\* the day sequences [5, 20], [7, 18], [6, 22] were answered with the
\* predicted times 6 and 20 (12 and 40 half minutes)
MedianExampleAnswered ==
  /\ requests = << >> /\ response.status = 200
  /\ [n \in 1..Len(db.stopVisits) |-> db.stopVisits[n].observedAt]
       = << At(StartDay - 1, 0, 6), At(StartDay - 1, 0, 22),
            At(StartDay - 2, 0, 7), At(StartDay - 2, 0, 18),
            At(StartDay - 3, 0, 5), At(StartDay - 3, 0, 20) >>
  /\ response.days[7].points = << [routeId |-> 1, minutes |-> <<12, 40>>, predicted |-> TRUE] >>

\* the stored visits of the request's stop by a route on the six days before
\* the day of the request
SeenBefore(route) ==
  {n \in 1..Len(db.stopVisits) :
     /\ db.stopVisits[n].stopId = requests[1].stopId
     /\ db.stopVisits[n].routeId = route
     /\ db.stopVisits[n].observedAt \div 1440
          \in ((requests[1].today \div 1440) - 6)..((requests[1].today \div 1440) - 1)}

\* C21: in the 200 response, a route of the routes table with visits of the
\* stop today and none on the six days before has no predicted point in any
\* day entry, and one observed point under today.
TodayOnlyRouteNotPredicted ==
  [][Answered =>
       \A route \in {r.routeId : r \in db.routes} :
         (SeenToday(route) # {} /\ SeenBefore(route) = {})
         => /\ \A p \in PointsOf(response') :
                 response'.days[p[1]].points[p[2]].routeId = route
                 => ~response'.days[p[1]].points[p[2]].predicted
            /\ Cardinality(TodayPoints(response', route, FALSE)) = 1]_vars

\* route 1 visited stop 1 today only, at 08:03 and, by the provider's clock,
\* at 08:20; the request of 08:10 was answered with these observed times and
\* no prediction
TodayOnlyRouteAnswered ==
  /\ requests = << >> /\ response.status = 200 /\ response.stop.stopId = 1
  /\ {db.stopVisits[n].observedAt : n \in 1..Len(db.stopVisits)}
       = {At(StartDay, 8, 3), At(StartDay, 8, 20)}
  /\ \A n \in 1..Len(db.stopVisits) :
       db.stopVisits[n].stopId = 1 /\ db.stopVisits[n].routeId = 1
  /\ Len(db.stopVisits) = 2
  /\ response.days[7].points
       = << [routeId |-> 1, minutes |-> <<966, 1000>>, predicted |-> FALSE] >>

\* the step in which the upsert of the one cycle in flight takes effect
Upserting ==
  /\ Len(pollRuns) = 1 /\ pollRuns[1].pc = "stats"
  /\ pollRuns' # pollRuns /\ pollLog' # "stats"

\* the rows of a table for a (day, route) key
StatsOf(table, day, route) == {r \in table : r.day = day /\ r.routeId = route}

\* the numeric routes of the feed of the cycle in flight
UpsertedRoutes ==
  {pollRuns[1].vehicles[n].route_id : n \in 1..Len(pollRuns[1].vehicles)} \ {NotNumber}

\* C22: route_daily_stats holds one row per (day, route) with first-seen <=
\* last-seen; no step removes a row, raises its first-seen time or lowers its
\* last-seen time; the table changes only when a cycle's upsert takes effect,
\* and then the row of the cycle's UTC day and each numeric route of its feed
\* has the least and the greatest of the cycle's fetch time and the times the
\* row held before (the fetch time itself for a new row), all other rows
\* staying as they were. From the empty table these are the minimum and
\* maximum fetch time of the cycles that upserted the row.
DailyStatsWidened ==
  [][/\ \A r \in db.routeDailyStats :
          \E q \in StatsOf(db'.routeDailyStats, r.day, r.routeId) :
            q.firstSeenAt <= r.firstSeenAt /\ q.lastSeenAt >= r.lastSeenAt
     /\ \A q \in db'.routeDailyStats :
          /\ q.firstSeenAt <= q.lastSeenAt
          /\ StatsOf(db'.routeDailyStats, q.day, q.routeId) = {q}
     /\ ~Upserting => db'.routeDailyStats = db.routeDailyStats
     /\ Upserting =>
          LET fetchedAt == pollRuns[1].fetchedAt
              day == (fetchedAt - 120) \div 1440
          IN /\ \A route \in UpsertedRoutes :
                  \E q \in db'.routeDailyStats :
                    /\ q.day = day /\ q.routeId = route
                    /\ \A t \in {fetchedAt} \cup {r.firstSeenAt :
                                    r \in StatsOf(db.routeDailyStats, day, route)} :
                         q.firstSeenAt <= t
                    /\ \A t \in {fetchedAt} \cup {r.lastSeenAt :
                                    r \in StatsOf(db.routeDailyStats, day, route)} :
                         q.lastSeenAt >= t
                    /\ q.firstSeenAt \in {fetchedAt} \cup {r.firstSeenAt :
                                    r \in StatsOf(db.routeDailyStats, day, route)}
                    /\ q.lastSeenAt \in {fetchedAt} \cup {r.lastSeenAt :
                                    r \in StatsOf(db.routeDailyStats, day, route)}
             /\ \A q \in db'.routeDailyStats :
                  (q.day # day \/ q.routeId \notin UpsertedRoutes)
                  => q \in db.routeDailyStats]_vars

\* route 1 was upserted by the cycles of 08:10 and of 00:10 of the next local
\* day, which is the same UTC day: its row of that day spans both
DailyStatsRowWidened ==
  /\ pollRuns = << >>
  /\ [day |-> StartDay, routeId |-> 1, firstSeenAt |-> StartTime,
      lastSeenAt |-> StartTime + 16 * 60] \in db.routeDailyStats

\* C23: a request for proxy/vehicles is passed on to the provider only when
\* no poll cycle has fetched its feed yet; once one has, the answer is that
\* cycle's { fetchedAt, vehicles }.
ProxyServesLastCycle ==
  [][/\ (/\ Len(requests') = Len(requests) + 1
         /\ requests'[Len(requests')].pc = "proxy"
         /\ requests'[Len(requests')].resource = "vehicles")
        => latestVehiclesFetchedAt = NoDate
     /\ (Len(requests) = 1 /\ requests[1].pc = "proxy" /\ requests[1].resource = "vehicles"
         /\ requests' = << >> /\ response'.status = 200)
        => latestVehiclesFetchedAt = NoDate]_vars

\* the stop ids of the provider's reference data, in every version of it
ReferenceStops ==
  {id \in 1..9 : \A data \in Datasets : \E n \in 1..Len(data.stops) : data.stops[n].stop_id = id}

\* the step in which the stop lookup of the one request in flight resolves
LookedUp ==
  /\ Len(requests) = 1 /\ requests[1].pc = "stop"
  /\ (requests' = << >> \/ requests'[1].pc # "stop") /\ response'.status # 500

\* C24: a 400 is answered without a store query being issued; the stop
\* lookup answers 404 for an id that is in no version of the reference data
\* nor in the stops table, and for an id of the reference data it does not
\* answer 404 but goes on with the stop's row; and the 200 response carries
\* stop, routes and days.
StopAnalyticsOutcomes ==
  [][/\ (response' # response /\ response'.status = 400) => requests' = requests
     /\ LookedUp =>
          /\ (/\ requests[1].stopId \notin {r.stopId : r \in db.stops}
              /\ \A data \in Datasets : \A n \in 1..Len(data.stops) :
                   data.stops[n].stop_id # requests[1].stopId)
             => (requests' = << >> /\ response'.status = 404)
          /\ requests[1].stopId \in ReferenceStops
             => /\ Len(requests') = 1 /\ requests'[1].pc = "visits"
                /\ requests'[1].stop.stopId = requests[1].stopId
                /\ response' = response
     /\ Answered =>
          /\ DOMAIN response' = {"status", "stop", "routes", "days"}
          /\ response'.stop.stopId = requests[1].stopId]_vars

\* C27: every reference table replaced by the refresh holds, in every state
\* a reader can query it in, the complete rows of one version of the
\* provider's data; and the tables are emptied, and filled, in the order
\* trips, stops, stop_times, shapes.
TablesReplacedTransactionally ==
  /\ [](/\ db.trips \in {TablesOf(data).trips : data \in Datasets}
        /\ db.stops \in {TablesOf(data).stops : data \in Datasets}
        /\ db.stopTimes \in {TablesOf(data).stopTimes : data \in Datasets}
        /\ db.shapes \in {TablesOf(data).shapes : data \in Datasets})
  /\ [][/\ (db'.stops = {} /\ db.stops # {}) => db.trips = {}
        /\ (db'.stopTimes = {} /\ db.stopTimes # {}) => db.stops = {}
        /\ (db'.shapes = {} /\ db.shapes # {}) => db.stopTimes = {}
        /\ (db'.stops \ db.stops # {}) => db.trips # {}
        /\ (db'.stopTimes \ db.stopTimes # {}) => db.stops # {}
        /\ (db'.shapes \ db.shapes # {}) => db.stopTimes # {}]_vars

\* what a cycle could commit: the tables, the reference caches, the
\* latest-vehicles cache and the containment set
Committed ==
  <<db, stopsCache, stopById, tripByIdCache, stopIdsByTripId, latestVehiclesCache,
    latestVehiclesFetchedAt, stopInsideByVehicle>>

\* C25: a poll cycle or a static refresh that ends on a failed provider
\* fetch, its first await, has changed nothing: the step that starts a cycle
\* and the step in which its fetch fails leave every table, the reference
\* caches (but for the stop list the startup has just loaded), the
\* latest-vehicles cache and the containment set as they are; and the failed
\* cycle leaves its loop's timer armed (the startup refresh: the startup
\* going on to start the loops).
FetchFailureCommitsNothing ==
  [][/\ Len(pollRuns') > Len(pollRuns) \/ Len(refreshRuns') > Len(refreshRuns)
          => /\ db' = db
             /\ <<tripByIdCache, stopIdsByTripId, latestVehiclesCache,
                  latestVehiclesFetchedAt, stopInsideByVehicle>>'
                  = <<tripByIdCache, stopIdsByTripId, latestVehiclesCache,
                      latestVehiclesFetchedAt, stopInsideByVehicle>>
             /\ main' = main => <<stopsCache, stopById>>' = <<stopsCache, stopById>>
     /\ \A k \in 1..Len(pollRuns) :
          (pollRuns[k].pc = "fetch" /\ pollRuns' = RemoveAt(pollRuns, k) /\ pollLog' = "fetch")
          => /\ Committed' = Committed
             /\ pollTimers = 0 /\ pollTimers' = 1
     /\ \A k \in 1..Len(refreshRuns) :
          (/\ refreshRuns[k].pc = "fetch" /\ refreshRuns' = RemoveAt(refreshRuns, k)
           /\ refreshLog' = "failed")
          => /\ Committed' = Committed
             /\ IF refreshRuns[k].owner = "loop"
                THEN refreshTimers = 0 /\ refreshTimers' = 1
                ELSE main = "initRefresh" /\ main' = "initLoad"]_vars

\* the fetch of a poll cycle and a refresh of the loop have failed on a store
\* that holds its reference data and on loaded caches, and both timers are armed
FetchesFailedStateKept ==
  /\ pollRuns = << >> /\ pollLog = "fetch" /\ pollTimers = 1
  /\ refreshRuns = << >> /\ refreshLog = "failed" /\ refreshTimers = 1
  /\ db.trips = TablesOf(DataA).trips /\ db.stops = TablesOf(DataA).stops
  /\ tripByIdCache = TripMap(DataA.trips)
  /\ latestVehiclesCache # << >>

\* C26: the static refreshes in flight (the startup's and the loop's) and the
\* armed refresh timers never number more than one together, and neither do
\* the retention sweeps in flight and the armed sweep timers.
RefreshAndSweepNeverOverlap ==
  /\ Len(refreshRuns) + refreshTimers <= 1
  /\ Len(sweepRuns) + sweepTimers <= 1

\* a poll cycle, a refresh of the loop past its fetch and a sweep past its
\* first delete are in flight at the same time
ThreeLoopsInFlight ==
  /\ Len(pollRuns) = 1
  /\ Len(refreshRuns) = 1 /\ refreshRuns[1].owner = "loop" /\ refreshRuns[1].pc = "insStops"
  /\ Len(sweepRuns) = 1 /\ sweepRuns[1].pc = "visits"

\* C30: the step in which a sweep settles, with or without error, arms one
\* timer of 24 h (86 400 000 ms); and no step of a sweep changes a reference
\* cache, the latest-vehicles cache or the containment set.
SweepAlwaysRescheduled ==
  [][/\ Len(sweepRuns') < Len(sweepRuns)
          => /\ sweepLog' \in {"ok", "failed"}
             /\ sweepTimers' = sweepTimers + 1
             /\ sweepDelay' = 86400000
     /\ sweepRuns' # sweepRuns
          => <<stopsCache, stopById, tripByIdCache, stopIdsByTripId, latestVehiclesCache,
               latestVehiclesFetchedAt, stopInsideByVehicle>>'
               = <<stopsCache, stopById, tripByIdCache, stopIdsByTripId, latestVehiclesCache,
                   latestVehiclesFetchedAt, stopInsideByVehicle>>]_vars

\* a sweep has failed while a vehicle is inside a stop: its timer is armed
\* with 24 h and the containment set still holds the pair
FailedSweepRescheduled ==
  /\ sweepRuns = << >> /\ sweepLog = "failed"
  /\ sweepTimers = 1 /\ sweepDelay = 86400000
  /\ stopInsideByVehicle # {} /\ latestVehiclesCache # << >>

\* the reports of a feed that are of a vehicle and qualify it for a stop of
\* its trip
ReportsOf(feed, vehicleId, stopId) ==
  {n \in 1..Len(feed) :
     /\ feed[n].id = vehicleId /\ Qualifies(feed[n]) /\ stopId \in TripStops(feed[n])}

\* C28: a step adds a pair to the containment set only as the detector's, on
\* a report of the vehicle that qualifies it for the stop at 50 m or less,
\* and the cycle emits nothing for the pair; a step removes a pair only as
\* the detector's, on such a report at more than 60 m, and the cycle emits
\* exactly one StopVisit for the pair, with that report's position and
\* distance; and every StopVisit emitted is of a pair that was inside before
\* the cycle and is outside after it.
TransitionsGuarded ==
  [][/\ \A pair \in stopInsideByVehicle' \ stopInsideByVehicle :
          /\ Detecting
          /\ \E n \in ReportsOf(Fed, pair[1], pair[2]) : Metres(Fed[n], pair[2]) <= 50
          /\ EventsFor(Emitted, pair[1], pair[2]) = {}
     /\ \A pair \in stopInsideByVehicle \ stopInsideByVehicle' :
          /\ Detecting
          /\ Cardinality(EventsFor(Emitted, pair[1], pair[2])) = 1
          /\ \A m \in EventsFor(Emitted, pair[1], pair[2]) :
               \E n \in ReportsOf(Fed, pair[1], pair[2]) :
                 /\ Metres(Fed[n], pair[2]) > 60
                 /\ Emitted[m].distanceMeters = Metres(Fed[n], pair[2])
                 /\ Emitted[m].latitude = Fed[n].latitude
                 /\ Emitted[m].routeId = Fed[n].route_id
                 /\ Emitted[m].tripId = Fed[n].trip_id
     /\ Detecting =>
          \A m \in 1..Len(Emitted) :
            /\ <<Emitted[m].vehicleId, Emitted[m].stopId>> \in stopInsideByVehicle
            /\ <<Emitted[m].vehicleId, Emitted[m].stopId>> \notin stopInsideByVehicle']_vars

\* one cycle has marked vehicle 1 outside stop 1, 65 m away, with its one
\* StopVisit awaiting the insert, and vehicle 2 inside the same stop
ExitAndEntryInOneCycle ==
  /\ Len(pollRuns) = 1 /\ pollRuns[1].pc = "visits"
  /\ Len(pollRuns[1].events) = 1
  /\ pollRuns[1].events[1].vehicleId = 1 /\ pollRuns[1].events[1].stopId = 1
  /\ pollRuns[1].events[1].distanceMeters = 65
  /\ <<1, 1>> \notin stopInsideByVehicle
  /\ <<2, 1>> \in stopInsideByVehicle
  /\ Len(latestVehiclesCache) = 2 /\ latestVehiclesCache[2].latitude = 40

\* C29: no timer is armed while a cycle is in flight; the step in which a
\* cycle settles, with or without error, arms the timer, and its delay is
\* 15 000 ms when the local hour of that moment is in 6..23 and 60 000 ms
\* when it is in 0..5, whatever the hour the cycle started in.
DelayFromCompletion ==
  [][/\ Len(pollRuns) > 0 => pollTimers = 0
     /\ Len(pollRuns') < Len(pollRuns)
          => /\ pollTimers' = 1
             /\ pollHour' = (now % 1440) \div 60
             /\ pollInterval' = IF 6 <= (now % 1440) \div 60 /\ (now % 1440) \div 60 <= 23
                                THEN 15000 ELSE 60000]_vars

\* the cycle that started at 05:59 and fetched its feed at 06:00 has armed
\* the day interval
DawnCycleArmsDayInterval ==
  /\ now = At(StartDay, 6, 0)
  /\ pollRuns = << >> /\ pollLog = "ok"
  /\ latestVehiclesFetchedAt = At(StartDay, 5, 59)
  /\ pollTimers = 1 /\ pollInterval = 15000

\* C31: whichever provider fetch never settles, the loops that did not issue
\* it start: the retention sweep loop, which fetches nothing, comes to have a
\* cycle in flight or its timer armed, and the poll loop comes to have
\* started, also when the fetch that hangs is the one of the initial refresh.
LoopsStartDespiteHungFetch ==
  <>(/\ Len(sweepRuns) + sweepTimers > 0
     /\ Len(pollRuns) + pollTimers > 0)

\* C32: at every suspension point of a cycle past its fetch, the cached
\* vehicle list and the cached fetch time are the list and the time of that
\* cycle; the two change only in the step in which a cycle's fetch resolves,
\* both to that cycle's values, and the step in which a cycle's fetch fails
\* changes neither.
LatestVehiclesFromOneCycle ==
  /\ [](\A k \in 1..Len(pollRuns) :
          pollRuns[k].pc # "fetch"
            => /\ latestVehiclesCache = pollRuns[k].vehicles
               /\ latestVehiclesFetchedAt = pollRuns[k].fetchedAt)
  /\ [][/\ (\/ latestVehiclesCache' # latestVehiclesCache
            \/ latestVehiclesFetchedAt' # latestVehiclesFetchedAt)
          => \E k \in 1..Len(pollRuns) :
               /\ pollRuns[k].pc = "fetch"
               /\ latestVehiclesFetchedAt' = pollRuns[k].fetchedAt
               /\ pollLog' # "fetch"
               /\ Len(pollRuns') = Len(pollRuns)
                    => pollRuns'[k].vehicles = latestVehiclesCache'
        /\ (pollLog' = "fetch" /\ pollLog # "fetch")
          => UNCHANGED <<latestVehiclesCache, latestVehiclesFetchedAt>>]_vars

\* a cycle's fetch has failed at a later hour and readers still see the
\* list and the time of the cycle before
FailedFetchKeepsLastCycle ==
  /\ pollLog = "fetch"
  /\ Len(latestVehiclesCache) > 0
  /\ latestVehiclesFetchedAt # NoDate
  /\ latestVehiclesFetchedAt < now

\* C33: in the step in which a cycle's detector runs, a vehicle of the feed
\* that does not qualify (no numeric position or route, no trip id, a trip
\* unknown to the caches, or a trip of another route) keeps every pair of
\* its id in the containment set as it was: none added, none removed.
SkippedVehicleKeepsPairs ==
  [][Detecting =>
       \A n \in 1..Len(Fed) :
         (\A m \in 1..Len(Fed) : Fed[m].id = Fed[n].id => ~Qualifies(Fed[m]))
         => \A s \in {1, 2} :
              <<Fed[n].id, s>> \in stopInsideByVehicle'
                <=> <<Fed[n].id, s>> \in stopInsideByVehicle]_vars

\* a cycle has ended on a feed whose vehicle reports no trip id, 65 m from
\* the stop it is still marked inside
TriplessVehicleStaysInside ==
  /\ pollRuns = << >> /\ pollLog = "ok"
  /\ \E n \in 1..Len(latestVehiclesCache) :
       LET v == latestVehiclesCache[n]
       IN /\ v.trip_id = Null
          /\ v.latitude = 65
          /\ <<v.id, 1>> \in stopInsideByVehicle

\* the sample lists of a request: the times of each day before it, and the
\* times of all those days together
SampleLists ==
  {DaySequences[d] : d \in 1..6}
  \cup {DaySequences[1] \o DaySequences[2] \o DaySequences[3]
          \o DaySequences[4] \o DaySequences[5] \o DaySequences[6]}

\* C34: percentile returns null on an empty list, the sample itself on a
\* single-sample list for every p in [0, 1] (here p = 0, 1/4, 1/2, 3/4, 1),
\* a value from the list's minimum to its maximum on every non-empty list,
\* and for p = 1/2 on an even-length list the mean of its two middle order
\* statistics; on the sample lists of every request answered.
PercentileWithinSamples ==
  [][Answered =>
       \A values \in SampleLists : \A pNum \in 0..4 :
         /\ Len(values) = 0 => percentile(values, pNum, 4) = NotNumber
         /\ Len(values) = 1 => percentile(values, pNum, 4) = values[1]
         /\ Len(values) > 0
              => /\ KthSmallest(values, 1) <= percentile(values, pNum, 4)
                 /\ percentile(values, pNum, 4) <= KthSmallest(values, Len(values))
         /\ (Len(values) > 0 /\ Len(values) % 2 = 0)
              => percentile(values, 1, 2)
                   = (KthSmallest(values, Len(values) \div 2)
                      + KthSmallest(values, Len(values) \div 2 + 1)) \div 2]_vars

\* history of one day with the runs 22 and 6, in that order, was answered
\* with each run's own time as its prediction (44 and 12 half minutes sorted)
SingleSamplesAnswered ==
  /\ requests = << >> /\ response.status = 200
  /\ [n \in 1..Len(db.stopVisits) |-> db.stopVisits[n].observedAt]
       = << At(StartDay - 1, 0, 22), At(StartDay - 1, 0, 6) >>
  /\ response.days[7].points = << [routeId |-> 1, minutes |-> <<12, 44>>, predicted |-> TRUE] >>

\* C35 as stated: in the step in which a cycle's detector runs, every pair
\* marked inside whose vehicle the feed reports more than 60 m from the stop
\* is marked outside and has its StopVisit emitted, whatever trip the
\* vehicle reports by then.
ExitDetectedWhateverTheTrip ==
  [][(Detecting /\ stopsCache # {}) =>
       \A n \in 1..Len(Fed) : \A s \in DOMAIN stopById :
         (/\ <<Fed[n].id, s>> \in stopInsideByVehicle
          /\ HasPosition(Fed[n])
          /\ Metres(Fed[n], s) > 60)
         => /\ <<Fed[n].id, s>> \notin stopInsideByVehicle'
            /\ EventsFor(Emitted, Fed[n].id, s) # {}]_vars

\* C35: in the step in which a cycle's detector runs, a pair marked inside
\* whose vehicle the feed reports more than 60 m from the stop is marked
\* outside, with exactly one StopVisit emitted, when the vehicle qualifies
\* and the stop is in the cached stop set of the trip it reports; when the
\* vehicle does not qualify (it lost its trip id, its route does not match)
\* or its trip's cached stop set does not hold the stop (it changed trip, a
\* refresh changed the stop set), the pair stays inside and nothing is
\* emitted for it.
ExitDetectedOnTripStops ==
  [][(Detecting /\ stopsCache # {}) =>
       \A n \in 1..Len(Fed) : \A s \in DOMAIN stopById :
         (/\ <<Fed[n].id, s>> \in stopInsideByVehicle
          /\ HasPosition(Fed[n])
          /\ Metres(Fed[n], s) > 60
          /\ \A m \in 1..Len(Fed) : Fed[m].id = Fed[n].id => m = n)
         => IF Qualifies(Fed[n]) /\ s \in TripStops(Fed[n])
            THEN /\ <<Fed[n].id, s>> \notin stopInsideByVehicle'
                 /\ Cardinality(EventsFor(Emitted, Fed[n].id, s)) = 1
            ELSE /\ <<Fed[n].id, s>> \in stopInsideByVehicle'
                 /\ EventsFor(Emitted, Fed[n].id, s) = {}]_vars

\* the refresh loop has run again, and a cycle has ended on a feed whose
\* vehicle, 65 m from stop 1 and still marked inside it, reports trip T2,
\* which does not serve stop 1
ChangedTripStaysInside ==
  /\ pollRuns = << >> /\ pollLog = "ok"
  /\ latestVehiclesCache = <<Vehicle(1, 65, 0, 2, "T2", NoDate)>>
  /\ 1 \in DOMAIN stopById
  /\ "T2" \in DOMAIN stopIdsByTripId
  /\ <<1, 1>> \in stopInsideByVehicle
  /\ db.stopVisits = << >>

NonDecreasing(seq) == \A n \in 1..(Len(seq) - 1) : seq[n] <= seq[n + 1]

\* C36 as stated: the predicted sequence of every request answered, as
\* buildPredictedTimes returns it for the route's day sequences and as the
\* response of 00:00 shows it, is non-decreasing in run index.
PredictedNonDecreasing ==
  [][Answered =>
       /\ NonDecreasing(buildPredictedTimes(DaySequences))
       /\ \A p \in TodayPoints(response', 1, TRUE) :
            NonDecreasing(response'.days[p[1]].points[p[2]].minutes)]_vars

\* C36: the predicted sequence is non-decreasing in run index when all the
\* days that have runs have the same number of runs.
PredictedNonDecreasingOnEqualDays ==
  [][(/\ Answered
      /\ \A d \in 1..6 : \A e \in 1..6 :
           (Len(DaySequences[d]) > 0 /\ Len(DaySequences[e]) > 0)
             => Len(DaySequences[d]) = Len(DaySequences[e]))
       => /\ NonDecreasing(buildPredictedTimes(DaySequences))
          /\ NonDecreasing(buildPredictedTimes(NonEmpty(DaySequences)))
          /\ \A p \in TodayPoints(response', 1, TRUE) :
               NonDecreasing(response'.days[p[1]].points[p[2]].minutes)]_vars

\* the day sequences [22, 6] and [18, 7], stored in that order, were
\* answered with the predicted times 6:30 and 20 (13 and 40 half minutes)
EqualDaysAnsweredInOrder ==
  /\ requests = << >> /\ response.status = 200
  /\ [n \in 1..Len(db.stopVisits) |-> db.stopVisits[n].observedAt]
       = << At(StartDay - 1, 0, 22), At(StartDay - 1, 0, 6),
            At(StartDay - 2, 0, 18), At(StartDay - 2, 0, 7) >>
  /\ response.days[7].points = << [routeId |-> 1, minutes |-> <<13, 40>>, predicted |-> TRUE] >>

\* C37: the trip lookup is empty when the process starts and is assigned by
\* no step but the one that ends a static refresh with success; and as long
\* as it is empty (no refresh of this process has succeeded, whether or not
\* the stop list was loaded from the store) no step adds a pair to the
\* containment set, emits a StopVisit or stores one.
NoVisitBeforeFirstRefresh ==
  /\ tripByIdCache = EmptyMap /\ stopIdsByTripId = EmptyMap
  /\ [][/\ (tripByIdCache' # tripByIdCache \/ stopIdsByTripId' # stopIdsByTripId)
             => (Len(refreshRuns') < Len(refreshRuns) /\ refreshLog' = "ok")
        /\ tripByIdCache = EmptyMap
             => /\ stopInsideByVehicle' = {}
                /\ stopInsideByVehicle = {}
                /\ db'.stopVisits = << >>
                /\ \A k \in 1..Len(pollRuns') :
                     pollRuns'[k].pc # "visits" /\ pollRuns'[k].events = << >>]_vars

\* the initial refresh failed, the stop list was loaded from the store, and
\* a cycle has ended on a vehicle of trip T1 standing 40 m from stop 1 while
\* the first run of the refresh loop is still in flight
CycleBeforeFirstRefresh ==
  /\ main = "running"
  /\ pollRuns = << >> /\ pollLog = "ok"
  /\ latestVehiclesCache = <<Vehicle(1, 40, 0, 1, "T1", NoDate)>>
  /\ 1 \in DOMAIN stopById
  /\ tripByIdCache = EmptyMap
  /\ Len(refreshRuns) = 1
  /\ stopInsideByVehicle = {}

\* C38: every 200 response of the stop analytics has exactly 7 day entries,
\* dated today - 6, ..., today in that order (today being the day the handler
\* read after its stop lookup), with isToday true on the last entry and on no
\* other, and with predicted points in no entry but the last.
SevenDaysTodayLast ==
  [][Answered =>
       /\ Len(response'.days) = 7
       /\ \A n \in 1..7 :
            /\ response'.days[n].date = (requests[1].today \div 1440) - 7 + n
            /\ response'.days[n].isToday = (n = 7)
       /\ \A p \in PointsOf(response') :
            response'.days[p[1]].points[p[2]].predicted => p[1] = 7]_vars

\* a response with an observed point under an earlier day and a predicted
\* point under today
HistoryAndPredictionAnswered ==
  /\ requests = << >> /\ response.status = 200
  /\ Len(response.days) = 7
  /\ \E n \in 1..6 : Len(response.days[n].points) > 0
  /\ \E m \in 1..Len(response.days[7].points) : response.days[7].points[m].predicted

\* the snapshot rows of a cycle are stored, and the daily statistics of its
\* day cover its fetch time for every route of its feed, in table rows
SnapshotsStored(run, rows) == Range(SnapshotRows(run.fetchedAt, run.vehicles)) \subseteq rows

StatsUpserted(run, rows) ==
  \A route \in ByRoute(run.vehicles) :
    \E r \in rows : /\ r.routeId = route /\ r.day = isoDay(run.fetchedAt)
                    /\ r.firstSeenAt <= run.fetchedAt /\ run.fetchedAt <= r.lastSeenAt

\* C39: a cycle's steps come in the order cache, snapshots, daily
\* statistics, detector: a snapshot is written only by a cycle whose list
\* and time are in the cache, the statistics only by a cycle whose snapshots
\* are stored, and the containment set changes or StopVisits are emitted
\* only in a step after which the cycle's snapshots and statistics are
\* stored; and the step in which a cycle fails at its snapshot or statistics
\* write leaves the containment set and stop_visits as they were, the cycle
\* having emitted nothing.
DetectorRunsLast ==
  [][/\ Len(pollRuns) = 0 => UNCHANGED <<db, stopInsideByVehicle>>
     /\ Len(pollRuns) = 1 =>
          LET run == pollRuns[1]
          IN /\ db'.vehicleSnapshots # db.vehicleSnapshots
                  => /\ run.pc = "snapshots"
                     /\ latestVehiclesCache = run.vehicles
                     /\ latestVehiclesFetchedAt = run.fetchedAt
             /\ db'.routeDailyStats # db.routeDailyStats
                  => run.pc = "stats" /\ SnapshotsStored(run, db.vehicleSnapshots)
             /\ (\/ stopInsideByVehicle' # stopInsideByVehicle
                 \/ (Len(pollRuns') = 1 /\ pollRuns'[1].pc = "visits" /\ run.pc # "visits"))
                  => /\ run.pc \in {"snapshots", "stats"}
                     /\ latestVehiclesCache' = run.vehicles
                     /\ SnapshotsStored(run, db'.vehicleSnapshots)
                     /\ StatsUpserted(run, db'.routeDailyStats)
             /\ db'.stopVisits # db.stopVisits => run.pc = "visits"
             /\ (pollRuns' = << >> /\ pollLog' \in {"snapshots", "stats"})
                  => /\ run.pc = pollLog'
                     /\ run.events = << >>
                     /\ stopInsideByVehicle' = stopInsideByVehicle
                     /\ db' = db]_vars

\* a cycle reporting the vehicle 65 m from stop 1 has failed at its daily
\* statistics write, its snapshot stored: the vehicle is still marked inside
\* and no visit is stored
FailedStatsSkipsDetector ==
  /\ pollRuns = << >> /\ pollLog = "stats"
  /\ latestVehiclesCache = <<Vehicle(1, 65, 0, 1, "T1", NoDate)>>
  /\ \E r \in db.vehicleSnapshots : r.fetchedAt = latestVehiclesFetchedAt
  /\ <<1, 1>> \in stopInsideByVehicle
  /\ db.stopVisits = << >>

====
